---- MODULE Spec2Model ----
(***************************************************************************)
(* gocachex: the in-memory backend (pkg/backends, MemoryBackend), the      *)
(* sharders (pkg/sharding: ConsistentHashSharder, HashSharder,             *)
(* RangeSharder) and the CacheClient in sharded and in hierarchical mode.  *)
(*                                                                         *)
(* Byte slices are sequences of one-character strings, so len(value) is    *)
(* Len(value).  time.Time is an integer number of clock ticks; the zero    *)
(* time.Time (IsZero) is 0 and the clock starts at 1.  Every call reads    *)
(* the clock and the clock has moved on by the time the next call starts.  *)
(***************************************************************************)
EXTENDS Integers, Sequences, FiniteSets, TLC

\* ------------------------------------------------------------------ bounds
MaxTime == 4

Keys == {"", "a", "b"}

Vals == {<<"7">>, <<"x", "y">>, <<"n", "u", "l", "l">>}

TTLs == {0, 1}

Deltas == {5}

\* the goroutines that run Increment against one store
Procs == {1, 2}

\* shards a router holds at most, and AddShard calls made at most
MaxShards == 4

MaxAdds == 6

\* virtual nodes per shard (ConsistentHashSharder.replicas)
ReplicaChoices == {1, 2}

\* the keys looked up on the router
RouteKeys == {"user:0", "user:22", "user:37", "user:42"}

\* the keys looked up on routers of every algorithm
ShardedKeys == {"", "b", "user:42"}

\* config.ShardingConfig (Algorithm, Replicas) of the routers explored
ShardingConfigs ==
  { [Algorithm |-> "consistent", Replicas |-> 1],
    [Algorithm |-> "hash", Replicas |-> 0],
    [Algorithm |-> "range", Replicas |-> 0] }

\* config.Config of the CacheClients in sharded mode explored: the router's
\* algorithm and replicas, and Sharding.Shards (0 = not set)
ShardCounts == {0, 1, 2, 3, 4}

ClientShardings ==
  { [Algorithm |-> c.Algorithm, Replicas |-> c.Replicas, Shards |-> n] :
      c \in ShardingConfigs, n \in ShardCounts }

\* the values that calls on a CacheClient store, and the deltas they add
ClientVals == {1, 2}

ClientDeltas == {1}

\* the counters that Increment may run up to and Decrement down to
ClientCounters == 0..2

\* config.L1.TTL of the CacheClients in hierarchical mode explored (0 = not
\* set), in minutes, and the keys and the ttl of the calls made on them
L1TTLs == {0, 1}

TierKeys == {"x", "y"}

TierTTLs == {3}

\* configurations of NewMemoryBackend explored (config.MemoryConfig, maxSize
\* is parseSize(cfg.MaxSize) in bytes, 0 = no limit)
Configs ==
  { [MaxKeys |-> 0, maxSize |-> 0, EvictionPolicy |-> "lru", DefaultTTL |-> 0],
    [MaxKeys |-> 2, maxSize |-> 0, EvictionPolicy |-> "lru", DefaultTTL |-> 0],
    [MaxKeys |-> 1, maxSize |-> 0, EvictionPolicy |-> "lfu", DefaultTTL |-> 2],
    [MaxKeys |-> 0, maxSize |-> 4, EvictionPolicy |-> "lru", DefaultTTL |-> 0],
    [MaxKeys |-> 0, maxSize |-> 4, EvictionPolicy |-> "lfu", DefaultTTL |-> 0],
    [MaxKeys |-> 0, maxSize |-> 4, EvictionPolicy |-> "random", DefaultTTL |-> 0] }

\* ------------------------------------------------------------------- state
VARIABLES
  cfg,          \* MemoryBackend.config / maxSize
  data,         \* MemoryBackend.data : key -> memoryItem
  currentSize,  \* MemoryBackend.currentSize
  stats,        \* MemoryBackend.stats (hits, misses, sets, deletes, evictions)
  now,          \* the clock read by time.Now()
  last,         \* the call that ran last and what it returned
  stopCleanup,  \* MemoryBackend.stopCleanup : the channel, open or closed
  mu,           \* MemoryBackend.mu : the holder of the write lock, the readers
  pc,           \* where each goroutine stands in Increment
  loc,          \* the locals of each goroutine's Increment
  want,         \* per key, the counter the completed calls add up to
  shards,       \* ConsistentHashSharder.shards
  replicas,     \* ConsistentHashSharder.replicas
  ring,         \* ConsistentHashSharder.ring : position -> shard index
  keys,         \* ConsistentHashSharder.keys : the positions, in order
  nextBackend,  \* the backend the next AddShard is given
  route,        \* the router call that ran last and what it returned
  algorithm,    \* the Sharder that NewSharder built: consistent, hash, range
  ranges,       \* RangeSharder.ranges : the boundary bytes
  config,       \* CacheClient.config : the mode, Sharding, L1.TTL
  clientShards, \* CacheClient.shards
  shardData,    \* what each backend of CacheClient.shards holds
  l1Cache,      \* CacheClient.l1Cache : what the first tier holds
  l2Cache,      \* CacheClient.l2Cache : what the second tier holds
  facade        \* the call on the CacheClient that ran last, the calls it
                \* made on the tiers or the shard, and what it returned

memVars == <<cfg, data, currentSize, stats, now, last, stopCleanup>>

concVars == <<mu, pc, loc, want>>

ringVars == <<shards, replicas, ring, keys, nextBackend, route, algorithm, ranges>>

clientVars == <<config, clientShards, shardData, l1Cache, l2Cache, facade>>

vars == <<cfg, data, currentSize, stats, now, last, stopCleanup, mu, pc, loc, want,
          shards, replicas, ring, keys, nextBackend, route, algorithm, ranges,
          config, clientShards, shardData, l1Cache, l2Cache, facade>>

\* ------------------------------------------------------------ map helpers
EmptyMap == [x \in {} |-> x]

MapPut(d, k, item) == [x \in (DOMAIN d) \cup {k} |-> IF x = k THEN item ELSE d[x]]

MapDelete(d, k) == [x \in (DOMAIN d) \ {k} |-> d[x]]

\* every order in which a range loop may visit the keys of a Go map
Orders(S) ==
  {o \in [1..Cardinality(S) -> S] : \A i, j \in 1..Cardinality(S) : o[i] = o[j] => i = j}

RECURSIVE SumSizes(_, _)
SumSizes(d, S) ==
  IF S = {} THEN 0
  ELSE LET k == CHOOSE x \in S : TRUE IN Len(d[k].value) + SumSizes(d, S \ {k})

\* ------------------------------------------------- integers as byte strings
Digits == <<"0", "1", "2", "3", "4", "5", "6", "7", "8", "9">>

IsDigit(c) == \E i \in 1..10 : Digits[i] = c

DigitVal(c) == (CHOOSE i \in 1..10 : Digits[i] = c) - 1

RECURSIVE FormatNat(_)
FormatNat(n) == IF n < 10 THEN <<Digits[n + 1]>> ELSE FormatNat(n \div 10) \o <<Digits[(n % 10) + 1]>>

\* fmt.Sprintf("%d", n)
FormatInt(n) == IF n < 0 THEN <<"-">> \o FormatNat(-n) ELSE FormatNat(n)

RECURSIVE DigitsVal(_)
DigitsVal(s) == IF s = <<>> THEN 0 ELSE 10 * DigitsVal(SubSeq(s, 1, Len(s) - 1)) + DigitVal(s[Len(s)])

IsSpace(c) == c \in {" ", "\t", "\n", "\r"}

RECURSIVE TrimLeft(_)
TrimLeft(s) == IF s # <<>> /\ IsSpace(Head(s)) THEN TrimLeft(Tail(s)) ELSE s

RECURSIVE TrimRight(_)
TrimRight(s) == IF s # <<>> /\ IsSpace(s[Len(s)]) THEN TrimRight(SubSeq(s, 1, Len(s) - 1)) ELSE s

\* a JSON number literal that strconv.ParseInt accepts: -?(0|[1-9][0-9]*)
IsIntLiteral(s) ==
  LET body == IF s # <<>> /\ Head(s) = "-" THEN Tail(s) ELSE s IN
    /\ body # <<>>
    /\ \A i \in 1..Len(body) : IsDigit(body[i])
    /\ (Len(body) > 1 => body[1] # "0")

IntLiteralVal(s) == IF Head(s) = "-" THEN -DigitsVal(Tail(s)) ELSE DigitsVal(s)

\* json.Unmarshal(item.value, &current) with current an int64 that starts at
\* 0: the literal null leaves current alone and is no error, an integer
\* literal sets it, anything else is an error.
UnmarshalInt(v) ==
  LET s == TrimRight(TrimLeft(v)) IN
    IF s = <<"n", "u", "l", "l">> THEN [ok |-> TRUE, n |-> 0]
    ELSE IF IsIntLiteral(s) THEN [ok |-> TRUE, n |-> IntLiteralVal(s)]
    ELSE [ok |-> FALSE, n |-> 0]

\* ------------------------------------------------------------ memoryItem
NewItem(v, exp, t) == [value |-> v, expireTime |-> exp, accessTime |-> t, accessCount |-> 0]

\* !item.expireTime.IsZero() && time.Now().After(item.expireTime)
IsExpired(item, t) == item.expireTime # 0 /\ t > item.expireTime

\* a call and its arguments (the ones the call does not take are "", <<>>, 0)
Call(op, key, value, ttl, delta) == [op |-> op, key |-> key, value |-> value, ttl |-> ttl, delta |-> delta]

\* what a call leaves in `last`: the call, the clock when it ran, what it
\* returned (val: the bytes, num: the int64, ok: found / exists / no error,
\* err: the error text) and the keys it evicted, in order
Ret(call, val, num, ok, err, evicted) ==
  [call |-> call, at |-> now, val |-> val, num |-> num, ok |-> ok, err |-> err, evicted |-> evicted]

NoCall == [call |-> Call("none", "", <<>>, 0, 0), at |-> 0, val |-> <<>>, num |-> 0, ok |-> FALSE,
           err |-> "", evicted |-> <<>>]

\* ------------------------------------------------------------- eviction
\* The store while a call holds the lock: the table, the memory total, the
\* evictions counter and the keys this call has evicted so far.
Store(d, size, ev, evicted) == [data |-> d, currentSize |-> size, evictions |-> ev, evicted |-> evicted]

\* delete one entry as the evict functions do
EvictKey(st, k) ==
  Store(MapDelete(st.data, k), st.currentSize - Len(st.data[k].value), st.evictions + 1,
        Append(st.evicted, k))

\* the range loop of evictLRU over the keys in the order `order`
RECURSIVE LRUScan(_, _, _, _)
LRUScan(d, order, oldestKey, oldestTime) ==
  IF order = <<>> THEN oldestKey
  ELSE LET key == Head(order) IN
    IF oldestKey = "" \/ d[key].accessTime < oldestTime
    THEN LRUScan(d, Tail(order), key, d[key].accessTime)
    ELSE LRUScan(d, Tail(order), oldestKey, oldestTime)

evictLRUIn(st, order) ==
  LET oldestKey == LRUScan(st.data, order, "", 0) IN
    IF oldestKey # "" THEN EvictKey(st, oldestKey) ELSE st

evictLRU(st) == {evictLRUIn(st, o) : o \in Orders(DOMAIN st.data)}

\* the range loop of evictLFU
RECURSIVE LFUScan(_, _, _, _)
LFUScan(d, order, targetKey, minAccess) ==
  IF order = <<>> THEN targetKey
  ELSE LET key == Head(order) IN
    IF minAccess = -1 \/ d[key].accessCount < minAccess
    THEN LFUScan(d, Tail(order), key, d[key].accessCount)
    ELSE LFUScan(d, Tail(order), targetKey, minAccess)

evictLFUIn(st, order) ==
  LET targetKey == LFUScan(st.data, order, "", -1) IN
    IF targetKey # "" THEN EvictKey(st, targetKey) ELSE st

evictLFU(st) == {evictLFUIn(st, o) : o \in Orders(DOMAIN st.data)}

\* the first key the range loop visits, if any
evictRandom(st) ==
  IF DOMAIN st.data = {} THEN {st} ELSE {EvictKey(st, k) : k \in DOMAIN st.data}

\* sizeToFree is not used by the code
evictItems(st, sizeToFree) ==
  CASE cfg.EvictionPolicy = "lru" -> evictLRU(st)
    [] cfg.EvictionPolicy = "lfu" -> evictLFU(st)
    [] cfg.EvictionPolicy = "random" -> evictRandom(st)
    [] OTHER -> evictLRU(st)

\* ------------------------------------------------------ MemoryBackend calls
\* calls are made while the clock is short of MaxTime, which bounds a run
Running == now < MaxTime

\* an expiry that takes no account of the ttl of the call
SetExpireTimeNoTTL(ttl, t) == IF cfg.DefaultTTL > 0 THEN t + cfg.DefaultTTL ELSE 0

SetExpireTime(ttl, t) ==
  IF ttl > 0 THEN t + ttl
  ELSE IF cfg.DefaultTTL > 0 THEN t + cfg.DefaultTTL
  ELSE 0

\* the store after the memory check of Set
SetEvictForSize(st, value) ==
  LET newSize == st.currentSize + Len(value) IN
    IF cfg.maxSize > 0 /\ newSize > cfg.maxSize
    THEN evictItems(st, newSize - cfg.maxSize)
    ELSE {st}

\* the store after the max keys check of Set
SetEvictForKeys(st) ==
  IF cfg.MaxKeys > 0 /\ Cardinality(DOMAIN st.data) >= cfg.MaxKeys
  THEN evictLRU(st)
  ELSE {st}

\* the size update and the insertion of Set
SetInsert(st, key, item) ==
  LET size1 == IF key \in DOMAIN st.data
               THEN st.currentSize - Len(st.data[key].value)
               ELSE st.currentSize
  IN Store(MapPut(st.data, key, item), size1 + Len(item.value), st.evictions, st.evicted)

\* every store a Set can leave behind
SetOutcomes(st, key, value, ttl, t) ==
  LET item == NewItem(value, SetExpireTime(ttl, t), t) IN
    {SetInsert(s2, key, item) :
       s2 \in UNION {SetEvictForKeys(s1) : s1 \in SetEvictForSize(st, value)}}

Locked == Store(data, currentSize, stats.evictions, <<>>)

Set(key, value, ttl) ==
  /\ \E s \in SetOutcomes(Locked, key, value, ttl, now) :
       /\ data' = s.data
       /\ currentSize' = s.currentSize
       /\ stats' = [stats EXCEPT !.evictions = s.evictions, !.sets = @ + 1]
       /\ last' = Ret(Call("Set", key, value, ttl, 0), <<>>, 0, TRUE, "", s.evicted)
  /\ now' = now + 1
  /\ UNCHANGED cfg

\* a Get that returns "key expired" without counting the miss
GetExpiredUncounted(key) ==
  /\ IF key \notin DOMAIN data
     THEN /\ stats' = [stats EXCEPT !.misses = @ + 1]
          /\ last' = Ret(Call("Get", key, <<>>, 0, 0), <<>>, 0, FALSE, "key not found", <<>>)
          /\ UNCHANGED data
     ELSE IF IsExpired(data[key], now)
     THEN /\ data' = MapDelete(data, key)
          /\ last' = Ret(Call("Get", key, <<>>, 0, 0), <<>>, 0, FALSE, "key expired", <<>>)
          /\ UNCHANGED stats
     ELSE /\ data' = [data EXCEPT ![key].accessTime = now, ![key].accessCount = @ + 1]
          /\ stats' = [stats EXCEPT !.hits = @ + 1]
          /\ last' = Ret(Call("Get", key, <<>>, 0, 0), data[key].value, 0, TRUE, "", <<>>)
  /\ now' = now + 1
  /\ UNCHANGED <<cfg, currentSize>>

Get(key) ==
  /\ IF key \notin DOMAIN data
     THEN /\ stats' = [stats EXCEPT !.misses = @ + 1]
          /\ last' = Ret(Call("Get", key, <<>>, 0, 0), <<>>, 0, FALSE, "key not found", <<>>)
          /\ UNCHANGED data
     ELSE IF IsExpired(data[key], now)
     THEN /\ data' = MapDelete(data, key)
          /\ stats' = [stats EXCEPT !.misses = @ + 1]
          /\ last' = Ret(Call("Get", key, <<>>, 0, 0), <<>>, 0, FALSE, "key expired", <<>>)
     ELSE /\ data' = [data EXCEPT ![key].accessTime = now, ![key].accessCount = @ + 1]
          /\ stats' = [stats EXCEPT !.hits = @ + 1]
          /\ last' = Ret(Call("Get", key, <<>>, 0, 0), data[key].value, 0, TRUE, "", <<>>)
  /\ now' = now + 1
  /\ UNCHANGED <<cfg, currentSize>>

\* a Delete that takes its removal back from the deletes counter
DeleteCountsDown(key) ==
  /\ IF key \in DOMAIN data
     THEN /\ currentSize' = currentSize - Len(data[key].value)
          /\ data' = MapDelete(data, key)
          /\ stats' = [stats EXCEPT !.deletes = @ - 1]
     ELSE UNCHANGED <<currentSize, data, stats>>
  /\ last' = Ret(Call("Delete", key, <<>>, 0, 0), <<>>, 0, TRUE, "", <<>>)
  /\ now' = now + 1
  /\ UNCHANGED cfg

Delete(key) ==
  /\ IF key \in DOMAIN data
     THEN /\ currentSize' = currentSize - Len(data[key].value)
          /\ data' = MapDelete(data, key)
          /\ stats' = [stats EXCEPT !.deletes = @ + 1]
     ELSE UNCHANGED <<currentSize, data, stats>>
  /\ last' = Ret(Call("Delete", key, <<>>, 0, 0), <<>>, 0, TRUE, "", <<>>)
  /\ now' = now + 1
  /\ UNCHANGED cfg

Exists(key) ==
  /\ IF key \notin DOMAIN data
     THEN /\ last' = Ret(Call("Exists", key, <<>>, 0, 0), <<>>, 0, FALSE, "", <<>>)
          /\ UNCHANGED data
     ELSE IF IsExpired(data[key], now)
     THEN /\ data' = MapDelete(data, key)
          /\ last' = Ret(Call("Exists", key, <<>>, 0, 0), <<>>, 0, FALSE, "", <<>>)
     ELSE /\ last' = Ret(Call("Exists", key, <<>>, 0, 0), <<>>, 0, TRUE, "", <<>>)
          /\ UNCHANGED data
  /\ now' = now + 1
  /\ UNCHANGED <<cfg, currentSize, stats>>

\* the body of Increment, which Decrement calls with -delta; op and arg are
\* the call the client made and the delta it passed
IncrementAs(op, arg, key, delta) ==
  /\ IF key \notin DOMAIN data
     THEN /\ data' = MapPut(data, key, NewItem(FormatInt(delta), 0, now))
          /\ last' = Ret(Call(op, key, <<>>, 0, arg), <<>>, delta, TRUE, "", <<>>)
     ELSE LET current == UnmarshalInt(data[key].value) IN
       IF ~current.ok
       THEN /\ last' = Ret(Call(op, key, <<>>, 0, arg), <<>>, 0, FALSE, "value is not a number", <<>>)
            /\ UNCHANGED data
       ELSE LET newValue == current.n + delta IN
            /\ data' = [data EXCEPT ![key].value = FormatInt(newValue), ![key].accessTime = now]
            /\ last' = Ret(Call(op, key, <<>>, 0, arg), <<>>, newValue, TRUE, "", <<>>)
  /\ now' = now + 1
  /\ UNCHANGED <<cfg, currentSize, stats>>

Increment(key, delta) == IncrementAs("Increment", delta, key, delta)

\* a Decrement that passes delta on as it is
DecrementSameSign(key, delta) == IncrementAs("Decrement", delta, key, delta)

Decrement(key, delta) == IncrementAs("Decrement", delta, key, -delta)

\* one Get of the loop of GetMulti on the store st, which also holds the
\* result map built so far
GetIn(st, key) ==
  IF key \notin DOMAIN st.data
  THEN [st EXCEPT !.misses = @ + 1]
  ELSE IF IsExpired(st.data[key], now)
  THEN [st EXCEPT !.data = MapDelete(@, key), !.misses = @ + 1]
  ELSE [st EXCEPT !.data[key].accessTime = now, !.data[key].accessCount = @ + 1,
                  !.hits = @ + 1, !.result = MapPut(@, key, st.data[key].value)]

RECURSIVE GetMultiLoop(_, _)
GetMultiLoop(st, ks) == IF ks = <<>> THEN st ELSE GetMultiLoop(GetIn(st, Head(ks)), Tail(ks))

\* what MemoryBackend.GetMulti(keys) leaves and returns
GetMultiOutcome(ks) ==
  GetMultiLoop([data |-> data, hits |-> stats.hits, misses |-> stats.misses, result |-> EmptyMap], ks)

GetMulti(ks) ==
  LET st == GetMultiOutcome(ks) IN
    /\ data' = st.data
    /\ stats' = [stats EXCEPT !.hits = st.hits, !.misses = st.misses]
    /\ last' = Ret(Call("GetMulti", ks, <<>>, 0, 0), st.result, 0, TRUE, "", <<>>)
    /\ now' = now + 1
    /\ UNCHANGED <<cfg, currentSize>>

\* the range loop of SetMulti over the items in the order `order`
RECURSIVE SetMultiLoop(_, _, _, _)
SetMultiLoop(st, items, order, ttl) ==
  IF order = <<>> THEN {st}
  ELSE UNION {SetMultiLoop(s, items, Tail(order), ttl) :
                s \in SetOutcomes(st, Head(order), items[Head(order)], ttl, now)}

SetMulti(items, ttl) ==
  /\ \E order \in Orders(DOMAIN items) : \E s \in SetMultiLoop(Locked, items, order, ttl) :
       /\ data' = s.data
       /\ currentSize' = s.currentSize
       /\ stats' = [stats EXCEPT !.evictions = s.evictions, !.sets = @ + Cardinality(DOMAIN items)]
       /\ last' = Ret(Call("SetMulti", "", items, ttl, 0), <<>>, 0, TRUE, "", s.evicted)
  /\ now' = now + 1
  /\ UNCHANGED cfg

\* the keys of the list ks
Listed(ks) == {ks[i] : i \in 1..Len(ks)}

\* the loop of DeleteMulti: a Delete per key of the list, none of which fails
DeleteMulti(ks) ==
  LET gone == Listed(ks) \cap DOMAIN data IN
    /\ data' = [k \in (DOMAIN data) \ gone |-> data[k]]
    /\ currentSize' = currentSize - SumSizes(data, gone)
    /\ stats' = [stats EXCEPT !.deletes = @ + Cardinality(gone)]
    /\ last' = Ret(Call("DeleteMulti", ks, <<>>, 0, 0), <<>>, 0, TRUE, "", <<>>)
    /\ now' = now + 1
    /\ UNCHANGED cfg

Expire(key, ttl) ==
  /\ IF key \notin DOMAIN data
     THEN /\ last' = Ret(Call("Expire", key, <<>>, ttl, 0), <<>>, 0, FALSE, "key not found", <<>>)
          /\ UNCHANGED data
     ELSE /\ data' = [data EXCEPT ![key].expireTime = IF ttl > 0 THEN now + ttl ELSE 0]
          /\ last' = Ret(Call("Expire", key, <<>>, ttl, 0), <<>>, 0, TRUE, "", <<>>)
  /\ now' = now + 1
  /\ UNCHANGED <<cfg, currentSize, stats>>

\* a Clear that forgets the memory total
ClearKeepsSize ==
  /\ data' = EmptyMap
  /\ last' = Ret(Call("Clear", "", <<>>, 0, 0), <<>>, 0, TRUE, "", <<>>)
  /\ now' = now + 1
  /\ UNCHANGED <<cfg, currentSize, stats>>

Clear ==
  /\ data' = EmptyMap
  /\ currentSize' = 0
  /\ last' = Ret(Call("Clear", "", <<>>, 0, 0), <<>>, 0, TRUE, "", <<>>)
  /\ now' = now + 1
  /\ UNCHANGED <<cfg, stats>>

\* a sweep that takes every entry that carries an expiry, due or not
cleanupExpiring ==
  /\ LET gone == {k \in DOMAIN data : data[k].expireTime # 0} IN
       /\ data' = [k \in (DOMAIN data) \ gone |-> data[k]]
       /\ currentSize' = currentSize - SumSizes(data, gone)
  /\ last' = Ret(Call("cleanupExpired", "", <<>>, 0, 0), <<>>, 0, TRUE, "", <<>>)
  /\ now' = now + 1
  /\ UNCHANGED <<cfg, stats>>

\* one tick of the cleanup goroutine
cleanupExpired ==
  /\ LET gone == {k \in DOMAIN data : IsExpired(data[k], now)} IN
       /\ data' = [k \in (DOMAIN data) \ gone |-> data[k]]
       /\ currentSize' = currentSize - SumSizes(data, gone)
  /\ last' = Ret(Call("cleanupExpired", "", <<>>, 0, 0), <<>>, 0, TRUE, "", <<>>)
  /\ now' = now + 1
  /\ UNCHANGED <<cfg, stats>>

\* the panic of close(m.stopCleanup) on a channel that is closed
ClosePanic == "panic: close of closed channel"

\* MemoryBackend.Close, to which CacheClient.Close hands the call when
\* c.backend is set; the cleanup goroutine returns once the channel is closed
Close ==
  /\ IF stopCleanup = "closed"
     THEN /\ last' = Ret(Call("Close", "", <<>>, 0, 0), <<>>, 0, FALSE, ClosePanic, <<>>)
          /\ UNCHANGED stopCleanup
     ELSE /\ last' = Ret(Call("Close", "", <<>>, 0, 0), <<>>, 0, TRUE, "", <<>>)
          /\ stopCleanup' = "closed"
  /\ now' = now + 1
  /\ UNCHANGED <<cfg, data, currentSize, stats>>

\* time passes with no call running
Tick ==
  /\ now' = now + 1
  /\ UNCHANGED <<cfg, data, currentSize, stats, last>>

\* ------------------------------------------------ Increment under m.mu
\* sync.RWMutex: the goroutine that holds the write lock (0 = none) and the
\* goroutines that hold the read lock
Unlocked == [writer |-> 0, readers |-> {}]

\* a lock that lets every goroutine in
CanLockAlways(p) == TRUE

\* m.mu.Lock() returns once no goroutine holds the lock
CanLock(p) == mu.writer = 0 /\ mu.readers = {}

NoLocals == [op |-> "none", key |-> "", arg |-> 0, delta |-> 0, exists |-> FALSE,
             current |-> [ok |-> FALSE, n |-> 0]]

\* the counter of a key the store does not hold
Absent == [has |-> FALSE, n |-> 0, by |-> {}]

\* goroutine p enters Increment(key, delta) and takes the write lock; op and
\* arg are the call the client made (Decrement calls Increment with -delta)
IncrementLock(p, op, arg, key, delta) ==
  /\ pc[p] = "idle"
  /\ CanLock(p)
  /\ mu' = [mu EXCEPT !.writer = p]
  /\ pc' = [pc EXCEPT ![p] = "locked"]
  /\ loc' = [loc EXCEPT ![p] = [NoLocals EXCEPT !.op = op, !.key = key, !.arg = arg,
                                                !.delta = delta]]
  /\ UNCHANGED <<memVars, want>>

\* item, exists := m.data[key] and the json.Unmarshal of item.value
IncrementRead(p) ==
  /\ pc[p] = "locked"
  /\ pc' = [pc EXCEPT ![p] = "read"]
  /\ loc' = [loc EXCEPT ![p].exists = loc[p].key \in DOMAIN data,
                        ![p].current = IF loc[p].key \in DOMAIN data
                                       THEN UnmarshalInt(data[loc[p].key].value)
                                       ELSE NoLocals.current]
  /\ UNCHANGED <<memVars, mu, want>>

\* the counter the calls completed on `key` add up to, once this one is done
Counted(p, key, delta) ==
  IF want[key].has
  THEN [want EXCEPT ![key].n = @ + delta, ![key].by = @ \cup {p}]
  ELSE [want EXCEPT ![key] = [has |-> TRUE, n |-> delta, by |-> {p}]]

\* the write of the new value, the return and the deferred m.mu.Unlock()
IncrementWrite(p) ==
  LET key == loc[p].key
      delta == loc[p].delta
      call == Call(loc[p].op, key, <<>>, 0, loc[p].arg)
  IN
  /\ pc[p] = "read"
  /\ IF ~loc[p].exists
     THEN /\ data' = MapPut(data, key, NewItem(FormatInt(delta), 0, now))
          /\ last' = Ret(call, <<>>, delta, TRUE, "", <<>>)
          /\ want' = Counted(p, key, delta)
     ELSE IF ~loc[p].current.ok
     THEN /\ last' = Ret(call, <<>>, 0, FALSE, "value is not a number", <<>>)
          /\ UNCHANGED <<data, want>>
     ELSE LET newValue == loc[p].current.n + delta IN
          /\ data' = IF key \in DOMAIN data
                     THEN [data EXCEPT ![key].value = FormatInt(newValue), ![key].accessTime = now]
                     ELSE data
          /\ last' = Ret(call, <<>>, newValue, TRUE, "", <<>>)
          /\ want' = Counted(p, key, delta)
  /\ mu' = [mu EXCEPT !.writer = 0]
  /\ pc' = [pc EXCEPT ![p] = "idle"]
  /\ loc' = [loc EXCEPT ![p] = NoLocals]
  /\ now' = now + 1
  /\ UNCHANGED <<cfg, currentSize, stats>>

\* ------------------------------------------------------ Get around m.mu
\* goroutine p enters Get(key): item, exists := m.data[key] between RLock
\* and RUnlock, and the return of a key that is not there.  The locals keep
\* the item found; orphan tells that the table has dropped or replaced it
\* since.
GetLookup(p, key) ==
  /\ pc[p] = "idle"
  /\ mu.writer = 0
  /\ IF key \notin DOMAIN data
     THEN /\ stats' = [stats EXCEPT !.misses = @ + 1]
          /\ last' = Ret(Call("Get", key, <<>>, 0, 0), <<>>, 0, FALSE, "key not found", <<>>)
          /\ now' = now + 1
          /\ UNCHANGED <<pc, loc>>
     ELSE /\ pc' = [pc EXCEPT ![p] = "found"]
          /\ loc' = [loc EXCEPT ![p] = [op |-> "Get", key |-> key, item |-> data[key],
                                        orphan |-> FALSE]]
          /\ UNCHANGED <<stats, last, now>>
  /\ UNCHANGED <<cfg, data, currentSize, stopCleanup, mu, want>>

\* the locals of the goroutines once the table has dropped or replaced the
\* items of the keys gone
Orphaned(gone) ==
  [p \in Procs |-> IF pc[p] = "found" /\ loc[p].key \in gone
                   THEN [loc[p] EXCEPT !.orphan = TRUE] ELSE loc[p]]

\* the rest of Get, after RUnlock: the expiry check on the item found, then
\* either the delete under m.mu.Lock() or the writes of item.accessTime and
\* item.accessCount, made with no lock held
GetFinish(p) ==
  LET key == loc[p].key
      item == loc[p].item
      call == Call("Get", key, <<>>, 0, 0)
  IN
  /\ pc[p] = "found"
  /\ IF IsExpired(item, now)
     THEN /\ CanLock(p)
          /\ data' = MapDelete(data, key)
          /\ stats' = [stats EXCEPT !.misses = @ + 1]
          /\ last' = Ret(call, <<>>, 0, FALSE, "key expired", <<>>)
          /\ loc' = [Orphaned({key}) EXCEPT ![p] = NoLocals]
     ELSE /\ data' = IF loc[p].orphan THEN data
                     ELSE [data EXCEPT ![key].accessTime = now, ![key].accessCount = @ + 1]
          /\ stats' = [stats EXCEPT !.hits = @ + 1]
          /\ last' = Ret(call, item.value, 0, TRUE, "", <<>>)
          /\ loc' = [loc EXCEPT ![p] = NoLocals]
  /\ pc' = [pc EXCEPT ![p] = "idle"]
  /\ now' = now + 1
  /\ UNCHANGED <<cfg, currentSize, stopCleanup, mu, want>>

\* ---------------------------------------------------- ConsistentHashSharder
\* fmt.Sprintf("shard-%d-%d", shardIndex, i), by shardIndex + 1 and i + 1
ShardLabels ==
  << <<"shard-0-0", "shard-0-1">>,
     <<"shard-1-0", "shard-1-1">>,
     <<"shard-2-0", "shard-2-1">>,
     <<"shard-3-0", "shard-3-1">>,
     <<"shard-4-0", "shard-4-1">>,
     <<"shard-5-0", "shard-5-1">> >>

ShardLabel(shardIndex, i) == ShardLabels[shardIndex + 1][i + 1]

\* crc32.ChecksumIEEE of the strings the router hashes
ChecksumIEEE ==
  [s \in {"shard-0-0", "shard-0-1", "shard-1-0", "shard-1-1", "shard-2-0", "shard-2-1",
          "shard-3-0", "shard-3-1", "shard-4-0", "shard-4-1", "shard-5-0", "shard-5-1"}
          \cup RouteKeys \cup ShardedKeys |->
     CASE s = "shard-0-0" -> 1534104214
       [] s = "shard-0-1" -> 746037760
       [] s = "shard-1-0" -> 1521678497
       [] s = "shard-1-1" -> 766887991
       [] s = "shard-2-0" -> 1492403960
       [] s = "shard-2-1" -> 804484718
       [] s = "shard-3-0" -> 1496722639
       [] s = "shard-3-1" -> 774970457
       [] s = "shard-4-0" -> 1551448650
       [] s = "shard-4-1" -> 729680604
       [] s = "shard-5-0" -> 1572556925
       [] s = "shard-5-1" -> 716988651
       [] s = "user:0" -> 212005396
       [] s = "user:22" -> 842377728
       [] s = "user:37" -> 1531211726
       [] s = "user:42" -> 1684999558
       [] s = "" -> 0
       [] s = "b" -> 1908338681]

hashKey(key) == ChecksumIEEE[key]

\* c.ring[key]: a position the map does not hold reads as the zero int
RingGet(r, key) == IF key \in DOMAIN r THEN r[key] ELSE 0

RECURSIVE SortInsert(_, _)
SortInsert(s, x) ==
  IF s = <<>> THEN <<x>>
  ELSE IF x <= Head(s) THEN <<x>> \o s
  ELSE <<Head(s)>> \o SortInsert(Tail(s), x)

\* sort.Slice(c.keys, less) with less(i, j) = c.keys[i] < c.keys[j]
RECURSIVE SortKeys(_)
SortKeys(s) == IF s = <<>> THEN <<>> ELSE SortInsert(SortKeys(Tail(s)), Head(s))

\* sort.Search(len(c.keys), func(i) c.keys[i] >= hash): the binary search
\* on the half-open range i..j of 0-based indexes
RECURSIVE Search(_, _, _, _)
Search(ks, hash, i, j) ==
  IF i >= j THEN i
  ELSE LET h == (i + j) \div 2 IN
         IF ks[h + 1] >= hash THEN Search(ks, hash, i, h) ELSE Search(ks, hash, h + 1, j)

\* the index into c.keys a lookup settles on
RingIdx(key) ==
  LET idx == Search(keys, hashKey(key), 0, Len(keys)) IN
    IF idx = Len(keys) THEN 0 ELSE idx

\* what a lookup returns: the shard index it took, the backend (0 = nil),
\* and whether it ran into an index out of range
Lookup(op, key, index, shard, fault) ==
  [op |-> op, key |-> key, index |-> index, shard |-> shard, err |-> "", fault |-> fault]

\* what GetShard(key) returns on the router as it stands
GetShardResult(key) ==
  IF Len(shards) = 0 THEN Lookup("GetShard", key, -1, 0, FALSE)
  ELSE IF Len(shards) = 1 THEN Lookup("GetShard", key, 0, shards[1], FALSE)
  ELSE IF RingIdx(key) >= Len(keys) THEN Lookup("GetShard", key, -1, 0, TRUE)
  ELSE LET shardIndex == RingGet(ring, keys[RingIdx(key) + 1]) IN
         IF shardIndex >= Len(shards) THEN Lookup("GetShard", key, shardIndex, 0, TRUE)
         ELSE Lookup("GetShard", key, shardIndex, shards[shardIndex + 1], FALSE)

GetShard(key) ==
  /\ route' = GetShardResult(key)
  /\ UNCHANGED <<shards, replicas, ring, keys>>

\* a GetShardIndex that returns the index of the position, not of the shard
GetShardIndexByPosition(key) == Lookup("GetShardIndex", key, RingIdx(key), 0, FALSE)

\* what GetShardIndex(key) returns on the router as it stands
GetShardIndexResult(key) ==
  IF Len(shards) = 0 THEN Lookup("GetShardIndex", key, -1, 0, FALSE)
  ELSE IF Len(shards) = 1 THEN Lookup("GetShardIndex", key, 0, 0, FALSE)
  ELSE IF RingIdx(key) >= Len(keys) THEN Lookup("GetShardIndex", key, -1, 0, TRUE)
  ELSE Lookup("GetShardIndex", key, RingGet(ring, keys[RingIdx(key) + 1]), 0, FALSE)

GetShardIndex(key) ==
  /\ route' = GetShardIndexResult(key)
  /\ UNCHANGED <<shards, replicas, ring, keys>>

\* what the lookups of every key return on the router as it stands; the
\* record of an AddShard call keeps what they returned before it (was)
Routing == [k \in RouteKeys |-> [shard |-> GetShardResult(k).shard,
                                 index |-> GetShardIndexResult(k).index,
                                 fault |-> GetShardResult(k).fault]]

\* the loop of AddShard that adds the virtual nodes i, i + 1, .., replicas - 1
RECURSIVE AddVirtualNodes(_, _, _, _)
AddVirtualNodes(r, ks, shardIndex, i) ==
  IF i >= replicas THEN [ring |-> r, keys |-> ks]
  ELSE LET key == hashKey(ShardLabel(shardIndex, i)) IN
         AddVirtualNodes(MapPut(r, key, shardIndex), Append(ks, key), shardIndex, i + 1)

AddShard(backend) ==
  /\ LET shardIndex == Len(shards)
         st == AddVirtualNodes(ring, keys, shardIndex, 0)
     IN /\ ring' = st.ring
        /\ keys' = SortKeys(st.keys)
  /\ shards' = Append(shards, backend)
  /\ route' = [op |-> "AddShard", key |-> "", index |-> Len(shards), shard |-> backend,
               err |-> "", fault |-> FALSE, was |-> Routing]
  /\ UNCHANGED replicas

\* the loop of RemoveShard over c.keys, which deletes from c.ring as it goes
RECURSIVE RemoveVirtualNodes(_, _, _, _)
RemoveVirtualNodes(ks, r, index, newKeys) ==
  IF ks = <<>> THEN [ring |-> r, keys |-> newKeys]
  ELSE LET key == Head(ks) IN
         IF RingGet(r, key) # index
         THEN RemoveVirtualNodes(Tail(ks), r, index, Append(newKeys, key))
         ELSE RemoveVirtualNodes(Tail(ks), MapDelete(r, key), index, newKeys)

RemoveShard(index) ==
  IF index < 0 \/ index >= Len(shards)
  THEN /\ route' = [op |-> "RemoveShard", key |-> "", index |-> index, shard |-> 0,
                    err |-> "invalid shard index", fault |-> FALSE]
       /\ UNCHANGED <<shards, replicas, ring, keys>>
  ELSE /\ LET st == RemoveVirtualNodes(keys, ring, index, <<>>) IN
            /\ keys' = st.keys
            /\ ring' = [key \in DOMAIN st.ring |->
                          IF st.ring[key] > index THEN st.ring[key] - 1 ELSE st.ring[key]]
       /\ shards' = SubSeq(shards, 1, index) \o SubSeq(shards, index + 2, Len(shards))
       /\ route' = [op |-> "RemoveShard", key |-> "", index |-> index, shard |-> shards[index + 1],
                    err |-> "", fault |-> FALSE]
       /\ UNCHANGED replicas

NoRoute == [op |-> "none", key |-> "", index |-> -1, shard |-> 0, err |-> "", fault |-> FALSE]

NewConsistentHashSharder(r) ==
  /\ shards = <<>>
  /\ replicas = r
  /\ ring = EmptyMap
  /\ keys = <<>>
  /\ nextBackend = 1
  /\ route = NoRoute

\* ------------------------------------------------ HashSharder, RangeSharder
\* the first four bytes of md5.Sum(key) as the two 16-bit halves of the uint32
md5Prefix ==
  [s \in ShardedKeys |->
     CASE s = "" -> [hi |-> 54301, lo |-> 36057]
       [] s = "b" -> [hi |-> 37611, lo |-> 24574]
       [] s = "user:42" -> [hi |-> 22234, lo |-> 57112]]

\* int(h.hashKey(key)) % n, with int of 64 bits
HashMod(key, n) == (((md5Prefix[key].hi % n) * (65536 % n)) + (md5Prefix[key].lo % n)) % n

NewHashSharder ==
  /\ shards = <<>>
  /\ replicas = 0
  /\ ring = EmptyMap
  /\ keys = <<>>
  /\ ranges = <<>>
  /\ nextBackend = 1
  /\ route = NoRoute

HashAddShard(backend) ==
  /\ shards' = Append(shards, backend)
  /\ route' = [op |-> "AddShard", key |-> "", index |-> Len(shards), shard |-> backend,
               err |-> "", fault |-> FALSE]
  /\ UNCHANGED <<replicas, ring, keys, ranges>>

HashRemoveShard(index) ==
  IF index < 0 \/ index >= Len(shards)
  THEN /\ route' = [op |-> "RemoveShard", key |-> "", index |-> index, shard |-> 0,
                    err |-> "invalid shard index", fault |-> FALSE]
       /\ UNCHANGED <<shards, replicas, ring, keys, ranges>>
  ELSE /\ shards' = SubSeq(shards, 1, index) \o SubSeq(shards, index + 2, Len(shards))
       /\ route' = [op |-> "RemoveShard", key |-> "", index |-> index, shard |-> shards[index + 1],
                    err |-> "", fault |-> FALSE]
       /\ UNCHANGED <<replicas, ring, keys, ranges>>

HashGetShardResult(key) ==
  IF Len(shards) = 0 THEN Lookup("GetShard", key, -1, 0, FALSE)
  ELSE Lookup("GetShard", key, HashMod(key, Len(shards)), shards[HashMod(key, Len(shards)) + 1], FALSE)

HashGetShard(key) ==
  /\ route' = HashGetShardResult(key)
  /\ UNCHANGED <<shards, replicas, ring, keys, ranges>>

HashGetShardIndexResult(key) ==
  IF Len(shards) = 0 THEN Lookup("GetShardIndex", key, -1, 0, FALSE)
  ELSE Lookup("GetShardIndex", key, HashMod(key, Len(shards)), 0, FALSE)

HashGetShardIndex(key) ==
  /\ route' = HashGetShardIndexResult(key)
  /\ UNCHANGED <<shards, replicas, ring, keys, ranges>>

\* key[0], the first byte of a key that is not empty
FirstByte ==
  [s \in ShardedKeys \ {""} |-> CASE s = "b" -> 98 [] s = "user:42" -> 117]

NewRangeSharder ==
  /\ shards = <<>>
  /\ replicas = 0
  /\ ring = EmptyMap
  /\ keys = <<>>
  /\ ranges = <<>>
  /\ nextBackend = 1
  /\ route = NoRoute

\* the boundary appended is string(rune('a' + len(r.shards) - 1)), kept as
\* its byte ('a' is 97)
RangeAddShard(backend) ==
  /\ shards' = Append(shards, backend)
  /\ ranges' = Append(ranges, 97 + Len(shards') - 1)
  /\ route' = [op |-> "AddShard", key |-> "", index |-> Len(shards), shard |-> backend,
               err |-> "", fault |-> FALSE]
  /\ UNCHANGED <<replicas, ring, keys>>

\* a RemoveShard that reports no error for an index out of range
RangeRemoveShardSilent(index) ==
  IF index < 0 \/ index >= Len(shards)
  THEN /\ route' = [op |-> "RemoveShard", key |-> "", index |-> index, shard |-> 0,
                    err |-> "", fault |-> FALSE]
       /\ UNCHANGED <<shards, replicas, ring, keys, ranges>>
  ELSE /\ shards' = SubSeq(shards, 1, index) \o SubSeq(shards, index + 2, Len(shards))
       /\ ranges' = SubSeq(ranges, 1, index) \o SubSeq(ranges, index + 2, Len(ranges))
       /\ route' = [op |-> "RemoveShard", key |-> "", index |-> index, shard |-> shards[index + 1],
                    err |-> "", fault |-> FALSE]
       /\ UNCHANGED <<replicas, ring, keys>>

RangeRemoveShard(index) ==
  IF index < 0 \/ index >= Len(shards)
  THEN /\ route' = [op |-> "RemoveShard", key |-> "", index |-> index, shard |-> 0,
                    err |-> "invalid shard index", fault |-> FALSE]
       /\ UNCHANGED <<shards, replicas, ring, keys, ranges>>
  ELSE /\ shards' = SubSeq(shards, 1, index) \o SubSeq(shards, index + 2, Len(shards))
       /\ ranges' = SubSeq(ranges, 1, index) \o SubSeq(ranges, index + 2, Len(ranges))
       /\ route' = [op |-> "RemoveShard", key |-> "", index |-> index, shard |-> shards[index + 1],
                    err |-> "", fault |-> FALSE]
       /\ UNCHANGED <<replicas, ring, keys>>

\* the loop of GetShardIndex over r.ranges from the 0-based index i on
RECURSIVE RangeScan(_, _)
RangeScan(firstChar, i) ==
  IF i >= Len(ranges) THEN Len(shards) - 1
  ELSE IF firstChar <= ranges[i + 1] THEN i
  ELSE RangeScan(firstChar, i + 1)

\* the int that RangeSharder.GetShardIndex returns
RangeIndex(key) ==
  IF Len(shards) = 0 THEN -1
  ELSE IF key = "" THEN 0
  ELSE RangeScan(FirstByte[key], 0)

RangeGetShardResult(key) ==
  IF Len(shards) = 0 THEN Lookup("GetShard", key, -1, 0, FALSE)
  ELSE IF RangeIndex(key) < 0 THEN Lookup("GetShard", key, 0, shards[1], FALSE)
  ELSE Lookup("GetShard", key, RangeIndex(key), shards[RangeIndex(key) + 1], FALSE)

RangeGetShard(key) ==
  /\ route' = RangeGetShardResult(key)
  /\ UNCHANGED <<shards, replicas, ring, keys, ranges>>

RangeGetShardIndexResult(key) == Lookup("GetShardIndex", key, RangeIndex(key), 0, FALSE)

RangeGetShardIndex(key) ==
  /\ route' = RangeGetShardIndexResult(key)
  /\ UNCHANGED <<shards, replicas, ring, keys, ranges>>

\* ------------------------------------------------- CacheClient, sharded mode
\* A backend behind a CacheClient is the table it holds, key -> the number
\* stored and the ttl it was stored with.  The calls below are those of the
\* Backend interface on such a table.
NoConfig ==
  [Hierarchical |-> FALSE, Distributed |-> FALSE,
   Sharding |-> [Algorithm |-> "", Replicas |-> 0, Shards |-> 0], L1TTL |-> 0,
   Compression |-> FALSE]

\* a call made on a backend or a tier (on), and whether it came back without error
BackendCall(on, op, ok) == [on |-> on, op |-> op, ok |-> ok]

\* a call on the CacheClient: the calls it made, the value, the flag and
\* the error it returned
FacadeCall(op, key, calls, val, found, err) ==
  [op |-> op, key |-> key, calls |-> calls, val |-> val, found |-> found, err |-> err]

NoFacadeCall == FacadeCall("none", "", <<>>, 0, FALSE, "")

\* sharding.ShardKey(key, shardCount), with int of 64 bits
ShardKey(key, shardCount) ==
  IF shardCount <= 0 THEN 0 ELSE ChecksumIEEE[key] % shardCount

\* CacheClient.getShard(key): the backend, 0 for nil
getShard(key) ==
  IF Len(clientShards) = 0 THEN 0
  ELSE IF Len(clientShards) = 1 THEN clientShards[1]
  ELSE clientShards[ShardKey(key, Len(clientShards)) + 1]

getDistributed(key) ==
  LET shard == getShard(key) IN
    /\ facade' =
         IF shard = 0 THEN FacadeCall("Get", key, <<>>, 0, FALSE, "no shard available")
         ELSE IF key \in DOMAIN shardData[shard]
         THEN FacadeCall("Get", key, <<BackendCall(shard, "Get", TRUE)>>,
                         shardData[shard][key].value, TRUE, "")
         ELSE FacadeCall("Get", key, <<BackendCall(shard, "Get", FALSE)>>, 0, FALSE, "key not found")
    /\ UNCHANGED shardData

setDistributed(key, value, ttl) ==
  LET shard == getShard(key) IN
    IF shard = 0
    THEN /\ facade' = FacadeCall("Set", key, <<>>, 0, FALSE, "no shard available")
         /\ UNCHANGED shardData
    ELSE /\ shardData' = [shardData EXCEPT ![shard] = MapPut(@, key, [value |-> value, ttl |-> ttl])]
         /\ facade' = FacadeCall("Set", key, <<BackendCall(shard, "Set", TRUE)>>, value, FALSE, "")

deleteDistributed(key) ==
  LET shard == getShard(key) IN
    IF shard = 0
    THEN /\ facade' = FacadeCall("Delete", key, <<>>, 0, FALSE, "no shard available")
         /\ UNCHANGED shardData
    ELSE /\ shardData' = [shardData EXCEPT ![shard] = MapDelete(@, key)]
         /\ facade' = FacadeCall("Delete", key, <<BackendCall(shard, "Delete", TRUE)>>, 0, FALSE, "")

existsDistributed(key) ==
  LET shard == getShard(key) IN
    /\ facade' =
         IF shard = 0 THEN FacadeCall("Exists", key, <<>>, 0, FALSE, "no shard available")
         ELSE FacadeCall("Exists", key, <<BackendCall(shard, "Exists", TRUE)>>, 0,
                         key \in DOMAIN shardData[shard], "")
    /\ UNCHANGED shardData

\* Increment and Decrement of a CacheClient in sharded mode (sign is 1 or -1);
\* they call the backend that getShard returns without looking at it, and
\* initSharding leaves at least one backend in c.shards
IncrementDistributed(op, sign, key, delta) ==
  LET shard == getShard(key)
      old == IF key \in DOMAIN shardData[shard] THEN shardData[shard][key].value ELSE 0
  IN /\ shard # 0
     /\ old + sign * delta \in ClientCounters
     /\ shardData' = [shardData EXCEPT ![shard] =
                        MapPut(@, key, [value |-> old + sign * delta, ttl |-> 0])]
     /\ facade' = FacadeCall(op, key, <<BackendCall(shard, op, TRUE)>>, old + sign * delta, FALSE, "")

\* the loop of initSharding from the 0-based i on: st holds the Sharder
\* (shards, ring, keys, ranges) and c.shards (client); the backends that
\* backends.New makes are 1, 2, ..
RECURSIVE initShardingLoop(_, _, _, _)
initShardingLoop(alg, st, i, shardCount) ==
  IF i >= shardCount THEN st
  ELSE LET backend == i + 1
           nodes == AddVirtualNodes(st.ring, st.keys, Len(st.shards), 0)
           added ==
             CASE alg = "consistent" ->
                    [st EXCEPT !.shards = Append(@, backend), !.ring = nodes.ring,
                               !.keys = SortKeys(nodes.keys)]
               [] alg = "hash" -> [st EXCEPT !.shards = Append(@, backend)]
               [] alg = "range" ->
                    [st EXCEPT !.shards = Append(@, backend),
                               !.ranges = Append(@, 97 + Len(st.shards))]
       IN initShardingLoop(alg, [added EXCEPT !.client = Append(@, backend)], i + 1, shardCount)

\* the CacheClient that New(cfg) leaves when cfg.Distributed, and the Sharder
\* that initSharding built on its way
initSharding(c) ==
  LET shardCount == IF c.Shards <= 0 THEN 3 ELSE c.Shards
      st == initShardingLoop(c.Algorithm,
                             [shards |-> <<>>, ring |-> EmptyMap, keys |-> <<>>,
                              ranges |-> <<>>, client |-> <<>>], 0, shardCount)
  IN /\ config = [NoConfig EXCEPT !.Distributed = TRUE, !.Sharding = c]
     /\ algorithm = c.Algorithm
     /\ replicas = (IF c.Algorithm # "consistent" THEN 0
                    ELSE IF c.Replicas <= 0 THEN 100 ELSE c.Replicas)
     /\ shards = st.shards
     /\ ring = st.ring
     /\ keys = st.keys
     /\ ranges = st.ranges
     /\ nextBackend = shardCount + 1
     /\ route = NoRoute
     /\ clientShards = st.client
     /\ shardData = [b \in 1..shardCount |-> EmptyMap]
     /\ l1Cache = EmptyMap
     /\ l2Cache = EmptyMap
     /\ facade = NoFacadeCall

\* ---------------------------------------------- CacheClient, one backend
\* JSONSerializer.Serialize of an int
Serialize(n) == FormatInt(n)

\* JSONSerializer.Deserialize into an interface{}: nothing for null, the
\* number (a float64 in Go) for an integer literal
Deserialize(v) ==
  LET s == TrimRight(TrimLeft(v)) IN
    IF IsIntLiteral(s) THEN [found |-> TRUE, n |-> IntLiteralVal(s)]
    ELSE [found |-> FALSE, n |-> 0]

NoValue == [found |-> FALSE, n |-> 0]

\* the locals of a goroutine inside SetNX or GetSet, kept once the call has
\* returned: the arguments, the time of the call, what c.Get returned (old),
\* the flag returned (ret)
FacadeLocals(op, key, value, ttl, old, ret, done) ==
  [op |-> op, key |-> key, value |-> value, ttl |-> ttl, at |-> now, old |-> old,
   ret |-> ret, done |-> done]

\* GzipCompressor: the two magic bytes of the gzip header stand for the
\* frame, the payload for the deflate stream
GzipHeader == <<"1f", "8b">>

Compress(d) == GzipHeader \o d

\* gzip.NewReader fails on bytes that do not start with the header
Decompress(d) ==
  IF Len(d) >= 2 /\ SubSeq(d, 1, 2) = GzipHeader
  THEN [ok |-> TRUE, data |-> SubSeq(d, 3, Len(d))]
  ELSE [ok |-> FALSE, data |-> <<>>]

\* json.Unmarshal returns an error
DeserializeFails(v) == ~Deserialize(v).found /\ TrimRight(TrimLeft(v)) # <<"n", "u", "l", "l">>

\* the bytes setSingle hands to the backend: compressed when c.compressor is set
Encode(d) == IF config.Compression THEN Compress(d) ELSE d

\* what getSingle makes of the bytes the backend returned
Decode(d) ==
  LET plain == IF config.Compression THEN Decompress(d) ELSE [ok |-> TRUE, data |-> d] IN
    IF ~plain.ok THEN [found |-> FALSE, n |-> 0, err |-> "failed to decompress data"]
    ELSE IF DeserializeFails(plain.data)
    THEN [found |-> FALSE, n |-> 0, err |-> "failed to deserialize data"]
    ELSE [found |-> Deserialize(plain.data).found, n |-> Deserialize(plain.data).n, err |-> ""]

\* CacheClient.Get with c.backend set: getSingle
getSingle(key) ==
  LET live == key \in DOMAIN data /\ ~IsExpired(data[key], now)
      out == IF live THEN Decode(data[key].value)
             ELSE [found |-> FALSE, n |-> 0, err |-> "key not found"]
  IN /\ Get(key)
     /\ facade' = FacadeCall("Get", key, <<BackendCall("backend", "Get", live)>>,
                             out.n, out.found, out.err)
     /\ UNCHANGED <<mu, pc, loc, want, stopCleanup>>

\* the values of the raw result that deserialise (no decompression is made)
Deserialized(raw) ==
  [k \in {x \in DOMAIN raw : ~DeserializeFails(raw[x])} |-> Deserialize(raw[k]).n]

\* CacheClient.GetMulti with c.backend set
ClientGetMulti(ks) ==
  /\ GetMulti(ks)
  /\ facade' = FacadeCall("GetMulti", ks, <<BackendCall("backend", "GetMulti", TRUE)>>,
                          Deserialized(GetMultiOutcome(ks).result), FALSE, "")
  /\ UNCHANGED <<mu, pc, loc, want, stopCleanup>>

\* CacheClient.SetMulti with c.backend set: the items are serialised and
\* handed to the backend as they are
ClientSetMulti(items, ttl) ==
  /\ SetMulti([k \in DOMAIN items |-> Serialize(items[k])], ttl)
  /\ facade' = FacadeCall("SetMulti", "", <<BackendCall("backend", "SetMulti", TRUE)>>,
                          items, FALSE, "")
  /\ UNCHANGED <<mu, pc, loc, want, stopCleanup>>

\* CacheClient.DeleteMulti with c.backend set
ClientDeleteMulti(ks) ==
  /\ DeleteMulti(ks)
  /\ facade' = FacadeCall("DeleteMulti", ks, <<BackendCall("backend", "DeleteMulti", TRUE)>>,
                          0, FALSE, "")
  /\ UNCHANGED <<mu, pc, loc, want, stopCleanup>>

\* CacheClient.Set with c.backend set: setSingle
setSingle(key, value, ttl) ==
  /\ Set(key, Encode(Serialize(value)), ttl)
  /\ facade' = FacadeCall("Set", key, <<BackendCall("backend", "Set", TRUE)>>, value, FALSE, "")
  /\ UNCHANGED <<mu, pc, loc, want, stopCleanup>>

\* a SetNX that goes on to its Set whatever c.Exists returned
SetNXBlind(p, key, value, ttl) ==
  /\ pc[p] = "idle"
  /\ Exists(key)
  /\ pc' = [pc EXCEPT ![p] = "absent"]
  /\ loc' = [loc EXCEPT ![p] = FacadeLocals("SetNX", key, value, ttl, NoValue, FALSE, FALSE)]
  /\ UNCHANGED <<facade, mu, want, stopCleanup>>

\* goroutine p enters SetNX(key, value, ttl): c.Exists, and the return of
\* false when the key exists
SetNXExists(p, key, value, ttl) ==
  /\ pc[p] = "idle"
  /\ Exists(key)
  /\ IF key \in DOMAIN data /\ ~IsExpired(data[key], now)
     THEN /\ facade' = FacadeCall("SetNX", key, <<BackendCall("backend", "Exists", TRUE)>>,
                                  value, FALSE, "")
          /\ loc' = [loc EXCEPT ![p] = FacadeLocals("SetNX", key, value, ttl, NoValue, FALSE, TRUE)]
          /\ UNCHANGED pc
     ELSE /\ pc' = [pc EXCEPT ![p] = "absent"]
          /\ loc' = [loc EXCEPT ![p] = FacadeLocals("SetNX", key, value, ttl, NoValue, FALSE, FALSE)]
          /\ UNCHANGED facade
  /\ UNCHANGED <<mu, want, stopCleanup>>

\* the rest of SetNX: c.Set, and the return of err == nil
SetNXSet(p) ==
  /\ pc[p] = "absent"
  /\ Set(loc[p].key, Encode(Serialize(loc[p].value)), loc[p].ttl)
  /\ facade' = FacadeCall("SetNX", loc[p].key,
                          <<BackendCall("backend", "Exists", TRUE), BackendCall("backend", "Set", TRUE)>>,
                          loc[p].value, TRUE, "")
  /\ loc' = [loc EXCEPT ![p].ret = TRUE, ![p].done = TRUE]
  /\ pc' = [pc EXCEPT ![p] = "idle"]
  /\ UNCHANGED <<mu, want, stopCleanup>>

\* goroutine p enters GetSet(key, value): oldValue, _ := c.Get(ctx, key)
GetSetGet(p, key, value) ==
  /\ pc[p] = "idle"
  /\ Get(key)
  /\ pc' = [pc EXCEPT ![p] = "got"]
  /\ loc' = [loc EXCEPT ![p] =
               FacadeLocals("GetSet", key, value, 0,
                            IF key \in DOMAIN data /\ ~IsExpired(data[key], now)
                            THEN Deserialize(data[key].value) ELSE NoValue,
                            FALSE, FALSE)]
  /\ UNCHANGED <<facade, mu, want, stopCleanup>>

\* the rest of GetSet: c.Set(ctx, key, value, 0), and the return of oldValue
GetSetSet(p) ==
  /\ pc[p] = "got"
  /\ Set(loc[p].key, Encode(Serialize(loc[p].value)), 0)
  /\ facade' = FacadeCall("GetSet", loc[p].key,
                          <<BackendCall("backend", "Get", loc[p].old.found),
                            BackendCall("backend", "Set", TRUE)>>,
                          loc[p].old.n, loc[p].old.found, "")
  /\ loc' = [loc EXCEPT ![p].ret = TRUE, ![p].done = TRUE]
  /\ pc' = [pc EXCEPT ![p] = "idle"]
  /\ UNCHANGED <<mu, want, stopCleanup>>

\* -------------------------------------------- CacheClient, hierarchical mode
\* A tier is a Cache over any backend; a call on it either comes through or
\* returns the backend's error, and each helper below is told which of the
\* calls it makes come through.
Unavailable == "backend unavailable"

\* 5 * time.Minute, in minutes
DefaultL1TTL == 5

\* a getHierarchical that does not write what it found in L2 into L1
getHierarchicalNoPromotion(key, l1Get, l2Get, l1Set) ==
  /\ facade' =
       IF l1Get /\ key \in DOMAIN l1Cache
       THEN FacadeCall("Get", key, <<BackendCall("L1", "Get", TRUE)>>, l1Cache[key].value, TRUE, "")
       ELSE IF ~(l2Get /\ key \in DOMAIN l2Cache)
       THEN FacadeCall("Get", key, <<BackendCall("L1", "Get", FALSE), BackendCall("L2", "Get", FALSE)>>,
                       0, FALSE, IF l2Get THEN "key not found" ELSE Unavailable)
       ELSE FacadeCall("Get", key, <<BackendCall("L1", "Get", FALSE), BackendCall("L2", "Get", TRUE)>>,
                       l2Cache[key].value, TRUE, "")
  /\ UNCHANGED <<l1Cache, l2Cache>>

getHierarchical(key, l1Get, l2Get, l1Set) ==
  IF l1Get /\ key \in DOMAIN l1Cache
  THEN /\ facade' = FacadeCall("Get", key, <<BackendCall("L1", "Get", TRUE)>>,
                               l1Cache[key].value, TRUE, "")
       /\ UNCHANGED <<l1Cache, l2Cache>>
  ELSE IF ~(l2Get /\ key \in DOMAIN l2Cache)
  THEN /\ facade' = FacadeCall("Get", key,
                               <<BackendCall("L1", "Get", FALSE), BackendCall("L2", "Get", FALSE)>>,
                               0, FALSE, IF l2Get THEN "key not found" ELSE Unavailable)
       /\ UNCHANGED <<l1Cache, l2Cache>>
  ELSE LET value == l2Cache[key].value
           l1TTL == IF config.L1TTL = 0 THEN DefaultL1TTL ELSE config.L1TTL
       IN /\ l1Cache' = IF l1Set THEN MapPut(l1Cache, key, [value |-> value, ttl |-> l1TTL])
                        ELSE l1Cache
          /\ facade' = FacadeCall("Get", key,
                                  <<BackendCall("L1", "Get", FALSE), BackendCall("L2", "Get", TRUE),
                                    BackendCall("L1", "Set", l1Set)>>, value, TRUE, "")
          /\ UNCHANGED l2Cache

\* a setHierarchical that writes L2 also when the write to L1 failed
setHierarchicalBoth(key, value, ttl, l1Set, l2Set) ==
  /\ l1Cache' = IF l1Set THEN MapPut(l1Cache, key, [value |-> value, ttl |-> ttl]) ELSE l1Cache
  /\ l2Cache' = IF l2Set THEN MapPut(l2Cache, key, [value |-> value, ttl |-> ttl]) ELSE l2Cache
  /\ facade' = FacadeCall("Set", key, <<BackendCall("L1", "Set", l1Set), BackendCall("L2", "Set", l2Set)>>,
                          value, FALSE,
                          IF ~l1Set THEN "failed to set in L1 cache"
                          ELSE IF ~l2Set THEN "failed to set in L2 cache" ELSE "")

setHierarchical(key, value, ttl, l1Set, l2Set) ==
  IF ~l1Set
  THEN /\ facade' = FacadeCall("Set", key, <<BackendCall("L1", "Set", FALSE)>>, value, FALSE,
                               "failed to set in L1 cache")
       /\ UNCHANGED <<l1Cache, l2Cache>>
  ELSE /\ l1Cache' = MapPut(l1Cache, key, [value |-> value, ttl |-> ttl])
       /\ l2Cache' = IF l2Set THEN MapPut(l2Cache, key, [value |-> value, ttl |-> ttl]) ELSE l2Cache
       /\ facade' = FacadeCall("Set", key,
                               <<BackendCall("L1", "Set", TRUE), BackendCall("L2", "Set", l2Set)>>,
                               value, FALSE, IF l2Set THEN "" ELSE "failed to set in L2 cache")

\* a deleteHierarchical that fails as soon as one of the tiers fails
deleteHierarchicalStrict(key, l1Delete, l2Delete) ==
  /\ l1Cache' = IF l1Delete THEN MapDelete(l1Cache, key) ELSE l1Cache
  /\ l2Cache' = IF l2Delete THEN MapDelete(l2Cache, key) ELSE l2Cache
  /\ facade' = FacadeCall("Delete", key,
                          <<BackendCall("L1", "Delete", l1Delete), BackendCall("L2", "Delete", l2Delete)>>,
                          0, FALSE,
                          IF ~l1Delete \/ ~l2Delete THEN "failed to delete from both caches" ELSE "")

deleteHierarchical(key, l1Delete, l2Delete) ==
  /\ l1Cache' = IF l1Delete THEN MapDelete(l1Cache, key) ELSE l1Cache
  /\ l2Cache' = IF l2Delete THEN MapDelete(l2Cache, key) ELSE l2Cache
  /\ facade' = FacadeCall("Delete", key,
                          <<BackendCall("L1", "Delete", l1Delete), BackendCall("L2", "Delete", l2Delete)>>,
                          0, FALSE,
                          IF ~l1Delete /\ ~l2Delete THEN "failed to delete from both caches" ELSE "")

existsHierarchical(key, l1Exists, l2Exists) ==
  /\ facade' =
       IF l1Exists /\ key \in DOMAIN l1Cache
       THEN FacadeCall("Exists", key, <<BackendCall("L1", "Exists", TRUE)>>, 0, TRUE, "")
       ELSE FacadeCall("Exists", key,
                       <<BackendCall("L1", "Exists", l1Exists), BackendCall("L2", "Exists", l2Exists)>>,
                       0, l2Exists /\ key \in DOMAIN l2Cache, IF l2Exists THEN "" ELSE Unavailable)
  /\ UNCHANGED <<l1Cache, l2Cache>>

\* CacheClient.Health with config.Hierarchical; the error of a tier is
\* Unavailable
HealthHierarchical(l1Health, l2Health) ==
  /\ facade' =
       IF ~l1Health
       THEN FacadeCall("Health", "", <<BackendCall("L1", "Health", FALSE)>>, 0, FALSE, Unavailable)
       ELSE FacadeCall("Health", "",
                       <<BackendCall("L1", "Health", TRUE), BackendCall("L2", "Health", l2Health)>>,
                       0, FALSE, IF l2Health THEN "" ELSE Unavailable)
  /\ UNCHANGED <<l1Cache, l2Cache>>

\* CacheClient.Close with config.Hierarchical: c.shards is empty and
\* c.backend is nil
CloseHierarchical(l1Close, l2Close) ==
  /\ facade' = FacadeCall("Close", "",
                          <<BackendCall("L1", "Close", l1Close), BackendCall("L2", "Close", l2Close)>>,
                          0, FALSE, IF l1Close /\ l2Close THEN "" ELSE "errors closing cache")
  /\ UNCHANGED <<l1Cache, l2Cache>>

\* an Increment or Decrement that goes through L1 as well as L2
IncrementBothTiers(op, sign, key, delta, l2Increment) ==
  LET old == IF key \in DOMAIN l2Cache THEN l2Cache[key].value ELSE 0 IN
    /\ old + sign * delta \in ClientCounters
    /\ l2Cache' = MapPut(l2Cache, key, [value |-> old + sign * delta, ttl |-> 0])
    /\ l1Cache' = MapPut(l1Cache, key, [value |-> old + sign * delta, ttl |-> 0])
    /\ facade' = FacadeCall(op, key, <<BackendCall("L1", op, TRUE), BackendCall("L2", op, TRUE)>>,
                            old + sign * delta, FALSE, "")

\* CacheClient.Increment and Decrement with config.Hierarchical (sign is 1
\* or -1): the call is handed to c.l2Cache, whose backend adds the delta to
\* the number it holds, or stores the delta with no expiry when it holds none
IncrementHierarchical(op, sign, key, delta, l2Increment) ==
  LET old == IF key \in DOMAIN l2Cache THEN l2Cache[key].value ELSE 0
      ttl == IF key \in DOMAIN l2Cache THEN l2Cache[key].ttl ELSE 0
  IN IF ~l2Increment
     THEN /\ facade' = FacadeCall(op, key, <<BackendCall("L2", op, FALSE)>>, 0, FALSE, Unavailable)
          /\ UNCHANGED <<l1Cache, l2Cache>>
     ELSE /\ old + sign * delta \in ClientCounters
          /\ l2Cache' = MapPut(l2Cache, key, [value |-> old + sign * delta, ttl |-> ttl])
          /\ facade' = FacadeCall(op, key, <<BackendCall("L2", op, TRUE)>>,
                                  old + sign * delta, FALSE, "")
          /\ UNCHANGED l1Cache

\* the CacheClient that New(cfg) leaves when cfg.Hierarchical
initHierarchicalCache(l1TTL) ==
  /\ config = [NoConfig EXCEPT !.Hierarchical = TRUE, !.L1TTL = l1TTL]
  /\ clientShards = <<>>
  /\ shardData = <<>>
  /\ l1Cache = EmptyMap
  /\ l2Cache = EmptyMap
  /\ facade = NoFacadeCall

\* ----------------------------------------------------------- specifications
NewMemoryBackend(c) ==
  /\ cfg = c
  /\ data = EmptyMap
  /\ currentSize = 0
  /\ stats = [hits |-> 0, misses |-> 0, sets |-> 0, deletes |-> 0, evictions |-> 0]
  /\ now = 1
  /\ last = NoCall
  /\ stopCleanup = "open"
  /\ mu = Unlocked

\* no goroutine is inside Increment
NoGoroutines ==
  /\ pc = [p \in Procs |-> "idle"]
  /\ loc = [p \in Procs |-> NoLocals]
  /\ want = [k \in Keys |-> Absent]

\* no router has been built
NoSharder ==
  /\ shards = <<>>
  /\ replicas = 0
  /\ ring = EmptyMap
  /\ keys = <<>>
  /\ nextBackend = 1
  /\ route = NoRoute
  /\ algorithm = ""
  /\ ranges = <<>>

\* no CacheClient has been built
NoClient ==
  /\ config = NoConfig
  /\ clientShards = <<>>
  /\ shardData = <<>>
  /\ l1Cache = EmptyMap
  /\ l2Cache = EmptyMap
  /\ facade = NoFacadeCall

Init ==
  /\ \E c \in Configs : NewMemoryBackend(c)
  /\ NoGoroutines
  /\ NoSharder
  /\ NoClient

\* one caller at a time: the calls below run from start to end, one after
\* another, on a store that has no router in front of it
Alone == Running /\ UNCHANGED <<concVars, ringVars, clientVars, stopCleanup>>

SetAny == Alone /\ \E key \in Keys, value \in Vals, ttl \in TTLs : Set(key, value, ttl)

GetAny == Alone /\ \E key \in Keys : Get(key)

DeleteAny == Alone /\ \E key \in Keys : Delete(key)

ExistsAny == Alone /\ \E key \in Keys : Exists(key)

IncrementAny == Alone /\ \E key \in Keys, delta \in Deltas : Increment(key, delta)

DecrementAny == Alone /\ \E key \in Keys, delta \in Deltas : Decrement(key, delta)

ExpireAny == Alone /\ \E key \in Keys, ttl \in TTLs : Expire(key, ttl)

ClearAny == Alone /\ Clear

cleanupAny == Alone /\ cleanupExpired

TickAny == Alone /\ Tick

Next ==
  \/ SetAny
  \/ GetAny
  \/ DeleteAny
  \/ ExistsAny
  \/ IncrementAny
  \/ DecrementAny
  \/ ExpireAny
  \/ ClearAny
  \/ cleanupAny
  \/ TickAny

Spec == Init /\ [][Next]_vars

\* Sets only, and the passing of time
NextSets ==
  \/ SetAny
  \/ TickAny

SpecSets == Init /\ [][NextSets]_vars

\* Sets and Gets only
NextSetGet ==
  \/ SetAny
  \/ GetAny
  \/ TickAny

SpecSetGet == Init /\ [][NextSetGet]_vars

\* Sets of keys other than the empty string
SetNamed == Alone /\ \E key \in Keys \ {""}, value \in Vals, ttl \in TTLs : Set(key, value, ttl)

NextNamed ==
  \/ SetNamed
  \/ TickAny

SpecNamed == Init /\ [][NextNamed]_vars

\* ---- goroutines in Increment and Decrement, with Set, Delete and the sweep
\* the store the goroutines share: no limit on keys or memory, no default TTL
Unlimited == [MaxKeys |-> 0, maxSize |-> 0, EvictionPolicy |-> "lru", DefaultTTL |-> 0]

\* the keys and the values the goroutines work on
CounterKeys == {"a", "b"}

CounterVals == {<<"7">>}

InitConc ==
  /\ NewMemoryBackend(Unlimited)
  /\ NoGoroutines
  /\ NoSharder
  /\ NoClient

IncrementCall ==
  /\ Running
  /\ \E p \in Procs, key \in CounterKeys, delta \in Deltas :
       IncrementLock(p, "Increment", delta, key, delta)
  /\ UNCHANGED <<ringVars, clientVars, stopCleanup>>

DecrementCall ==
  /\ Running
  /\ \E p \in Procs, key \in CounterKeys, delta \in Deltas :
       IncrementLock(p, "Decrement", delta, key, -delta)
  /\ UNCHANGED <<ringVars, clientVars, stopCleanup>>

IncrementReadStep == (\E p \in Procs : IncrementRead(p)) /\ UNCHANGED <<ringVars, clientVars, stopCleanup>>

IncrementWriteStep == (\E p \in Procs : IncrementWrite(p)) /\ UNCHANGED <<ringVars, clientVars, stopCleanup>>

\* Set, Delete and cleanupExpired take m.mu.Lock() for their whole body
SetLocked ==
  /\ Running
  /\ CanLock(0)
  /\ \E key \in CounterKeys, value \in CounterVals, ttl \in TTLs :
       /\ Set(key, value, ttl)
       /\ want' = [want EXCEPT ![key] = [has |-> TRUE, n |-> UnmarshalInt(value).n, by |-> {}]]
  /\ UNCHANGED <<mu, pc, loc, ringVars, clientVars, stopCleanup>>

DeleteLocked ==
  /\ Running
  /\ CanLock(0)
  /\ \E key \in CounterKeys :
       /\ Delete(key)
       /\ want' = [want EXCEPT ![key] = Absent]
  /\ UNCHANGED <<mu, pc, loc, ringVars, clientVars, stopCleanup>>

cleanupLocked ==
  /\ Running
  /\ CanLock(0)
  /\ cleanupExpired
  /\ want' = [k \in Keys |-> IF k \in DOMAIN data /\ IsExpired(data[k], now)
                             THEN Absent ELSE want[k]]
  /\ UNCHANGED <<mu, pc, loc, ringVars, clientVars, stopCleanup>>

NextConc ==
  \/ IncrementCall
  \/ DecrementCall
  \/ IncrementReadStep
  \/ IncrementWriteStep
  \/ SetLocked
  \/ DeleteLocked
  \/ cleanupLocked
  \/ TickAny

SpecConc == InitConc /\ [][NextConc]_vars

\* ------------------------------------------------ a router that is rebuilt
InitRing ==
  /\ NewMemoryBackend(Unlimited)
  /\ NoGoroutines
  /\ \E r \in ReplicaChoices : NewConsistentHashSharder(r)
  /\ algorithm = "consistent"
  /\ ranges = <<>>
  /\ NoClient

AddShardAny ==
  /\ Len(shards) < MaxShards
  /\ nextBackend <= MaxAdds
  /\ AddShard(nextBackend)
  /\ nextBackend' = nextBackend + 1
  /\ UNCHANGED <<algorithm, ranges, memVars, concVars, clientVars>>

RemoveShardAny ==
  /\ \E index \in (0 - 1)..Len(shards) : RemoveShard(index)
  /\ UNCHANGED <<nextBackend, algorithm, ranges, memVars, concVars, clientVars>>

GetShardAny ==
  /\ \E key \in RouteKeys : GetShard(key)
  /\ UNCHANGED <<nextBackend, algorithm, ranges, memVars, concVars, clientVars>>

GetShardIndexAny ==
  /\ \E key \in RouteKeys : GetShardIndex(key)
  /\ UNCHANGED <<nextBackend, algorithm, ranges, memVars, concVars, clientVars>>

NextRing ==
  \/ AddShardAny
  \/ RemoveShardAny
  \/ GetShardAny
  \/ GetShardIndexAny

SpecRing == InitRing /\ [][NextRing]_vars

\* --------------------------------------- routers of every algorithm
\* sharding.NewSharder(cfg)
NewSharder(c) ==
  /\ algorithm = c.Algorithm
  /\ CASE c.Algorithm = "consistent" ->
             /\ NewConsistentHashSharder(IF c.Replicas <= 0 THEN 100 ELSE c.Replicas)
             /\ ranges = <<>>
        [] c.Algorithm = "hash" -> NewHashSharder
        [] c.Algorithm = "range" -> NewRangeSharder

InitSharders ==
  /\ NewMemoryBackend(Unlimited)
  /\ NoGoroutines
  /\ \E c \in ShardingConfigs : NewSharder(c)
  /\ NoClient

\* the calls of the Sharder interface, on the Sharder that was built
SharderAddShard ==
  /\ Len(shards) < MaxShards
  /\ nextBackend <= MaxAdds
  /\ CASE algorithm = "consistent" -> AddShard(nextBackend) /\ UNCHANGED ranges
        [] algorithm = "hash" -> HashAddShard(nextBackend)
        [] algorithm = "range" -> RangeAddShard(nextBackend)
  /\ nextBackend' = nextBackend + 1
  /\ UNCHANGED <<algorithm, memVars, concVars, clientVars>>

SharderRemoveShard ==
  /\ \E index \in (0 - 1)..Len(shards) :
       CASE algorithm = "consistent" -> RemoveShard(index) /\ UNCHANGED ranges
         [] algorithm = "hash" -> HashRemoveShard(index)
         [] algorithm = "range" -> RangeRemoveShard(index)
  /\ UNCHANGED <<nextBackend, algorithm, memVars, concVars, clientVars>>

SharderGetShard ==
  /\ \E key \in ShardedKeys :
       CASE algorithm = "consistent" -> GetShard(key) /\ UNCHANGED ranges
         [] algorithm = "hash" -> HashGetShard(key)
         [] algorithm = "range" -> RangeGetShard(key)
  /\ UNCHANGED <<nextBackend, algorithm, memVars, concVars, clientVars>>

SharderGetShardIndex ==
  /\ \E key \in ShardedKeys :
       CASE algorithm = "consistent" -> GetShardIndex(key) /\ UNCHANGED ranges
         [] algorithm = "hash" -> HashGetShardIndex(key)
         [] algorithm = "range" -> RangeGetShardIndex(key)
  /\ UNCHANGED <<nextBackend, algorithm, memVars, concVars, clientVars>>

NextSharders ==
  \/ SharderAddShard
  \/ SharderRemoveShard
  \/ SharderGetShard
  \/ SharderGetShardIndex

SpecSharders == InitSharders /\ [][NextSharders]_vars

\* ------------------------------------------- a CacheClient in sharded mode
InitSharded ==
  /\ NewMemoryBackend(Unlimited)
  /\ NoGoroutines
  /\ \E c \in ClientShardings : initSharding(c)

\* a call on the CacheClient leaves the Sharder and the stores of the
\* other modes alone
Sharded ==
  /\ config.Distributed
  /\ UNCHANGED <<config, clientShards, l1Cache, l2Cache, ringVars, memVars, concVars>>

ShardedGet == Sharded /\ \E key \in ShardedKeys : getDistributed(key)

ShardedSet == Sharded /\ \E key \in ShardedKeys, value \in ClientVals : setDistributed(key, value, 0)

ShardedDelete == Sharded /\ \E key \in ShardedKeys : deleteDistributed(key)

ShardedExists == Sharded /\ \E key \in ShardedKeys : existsDistributed(key)

ShardedIncrement ==
  Sharded /\ \E key \in ShardedKeys, delta \in ClientDeltas : IncrementDistributed("Increment", 1, key, delta)

ShardedDecrement ==
  Sharded /\ \E key \in ShardedKeys, delta \in ClientDeltas : IncrementDistributed("Decrement", -1, key, delta)

NextSharded ==
  \/ ShardedGet
  \/ ShardedSet
  \/ ShardedDelete
  \/ ShardedExists
  \/ ShardedIncrement
  \/ ShardedDecrement

SpecSharded == InitSharded /\ [][NextSharded]_vars

\* --------------------------------------- a CacheClient in hierarchical mode
InitTiers ==
  /\ NewMemoryBackend(Unlimited)
  /\ NoGoroutines
  /\ NoSharder
  /\ \E l1TTL \in L1TTLs : initHierarchicalCache(l1TTL)

Tiered ==
  /\ config.Hierarchical
  /\ UNCHANGED <<config, clientShards, shardData, ringVars, memVars, concVars>>

TieredGet ==
  Tiered /\ \E key \in TierKeys, l1Get, l2Get, l1Set \in BOOLEAN : getHierarchical(key, l1Get, l2Get, l1Set)

TieredSet ==
  Tiered /\ \E key \in TierKeys, value \in ClientVals, ttl \in TierTTLs, l1Set, l2Set \in BOOLEAN :
              setHierarchical(key, value, ttl, l1Set, l2Set)

TieredDelete ==
  Tiered /\ \E key \in TierKeys, l1Delete, l2Delete \in BOOLEAN : deleteHierarchical(key, l1Delete, l2Delete)

TieredExists ==
  Tiered /\ \E key \in TierKeys, l1Exists, l2Exists \in BOOLEAN : existsHierarchical(key, l1Exists, l2Exists)

TieredHealth == Tiered /\ \E l1Health, l2Health \in BOOLEAN : HealthHierarchical(l1Health, l2Health)

TieredClose == Tiered /\ \E l1Close, l2Close \in BOOLEAN : CloseHierarchical(l1Close, l2Close)

TieredIncrement ==
  Tiered /\ \E key \in TierKeys, delta \in ClientDeltas, l2Increment \in BOOLEAN :
              IncrementHierarchical("Increment", 1, key, delta, l2Increment)

TieredDecrement ==
  Tiered /\ \E key \in TierKeys, delta \in ClientDeltas, l2Decrement \in BOOLEAN :
              IncrementHierarchical("Decrement", -1, key, delta, l2Decrement)

NextTiers ==
  \/ TieredGet
  \/ TieredSet
  \/ TieredDelete
  \/ TieredExists
  \/ TieredHealth
  \/ TieredClose
  \/ TieredIncrement
  \/ TieredDecrement

SpecTiers == InitTiers /\ [][NextTiers]_vars

\* --------------------------- goroutines in SetNX, GetSet and Set
\* A CacheClient over one memory store whose entries never expire: a key
\* that was set stays.
OneBackend == UNCHANGED <<ringVars, config, clientShards, shardData, l1Cache, l2Cache>>

SetNXCall ==
  /\ Running
  /\ \E p \in Procs, key \in CounterKeys, value \in ClientVals : SetNXExists(p, key, value, 0)
  /\ OneBackend

SetNXReturn == (\E p \in Procs : SetNXSet(p)) /\ OneBackend

GetSetCall ==
  /\ Running
  /\ \E p \in Procs, key \in CounterKeys, value \in ClientVals : GetSetGet(p, key, value)
  /\ OneBackend

GetSetReturn == (\E p \in Procs : GetSetSet(p)) /\ OneBackend

SetCall ==
  /\ Running
  /\ \E key \in CounterKeys, value \in ClientVals : setSingle(key, value, 0)
  /\ OneBackend

NextFacade ==
  \/ SetNXCall
  \/ SetNXReturn
  \/ GetSetCall
  \/ GetSetReturn
  \/ SetCall

SpecFacade == InitConc /\ [][NextFacade]_vars

\* ------------------------------------------ one caller of SetNX and Set
NoCaller == \A p \in Procs : pc[p] = "idle"

LoneSetNX ==
  /\ Running
  /\ NoCaller
  /\ \E p \in Procs, key \in CounterKeys, value \in ClientVals, ttl \in TTLs :
       SetNXExists(p, key, value, ttl)
  /\ OneBackend

LoneSet ==
  /\ Running
  /\ NoCaller
  /\ \E key \in CounterKeys, value \in ClientVals, ttl \in TTLs : setSingle(key, value, ttl)
  /\ OneBackend

NextSetNX ==
  \/ LoneSetNX
  \/ SetNXReturn
  \/ LoneSet
  \/ TickAny

SpecSetNX == InitConc /\ [][NextSetNX]_vars

\* ------------------------- single-key and batch calls on one backend
\* the key lists and the item maps of the batch calls
KeyLists == {<<>>, <<"a">>, <<"b">>, <<"a", "b">>, <<"b", "b">>}

ItemMaps == UNION {[S -> ClientVals] : S \in {{"a"}, {"b"}, {"a", "b"}}}

\* New with Backend "memory", with and without Compression
InitBatch ==
  /\ NewMemoryBackend(Unlimited)
  /\ NoGoroutines
  /\ NoSharder
  /\ \E compression \in BOOLEAN : config = [NoConfig EXCEPT !.Compression = compression]
  /\ clientShards = <<>>
  /\ shardData = <<>>
  /\ l1Cache = EmptyMap
  /\ l2Cache = EmptyMap
  /\ facade = NoFacadeCall

BatchSet ==
  /\ Running
  /\ \E key \in CounterKeys, value \in ClientVals, ttl \in TTLs : setSingle(key, value, ttl)
  /\ OneBackend

BatchGet == Running /\ (\E key \in CounterKeys : getSingle(key)) /\ OneBackend

BatchSetMulti ==
  /\ Running
  /\ \E items \in ItemMaps, ttl \in TTLs : ClientSetMulti(items, ttl)
  /\ OneBackend

BatchGetMulti == Running /\ (\E ks \in KeyLists : ClientGetMulti(ks)) /\ OneBackend

BatchDeleteMulti == Running /\ (\E ks \in KeyLists : ClientDeleteMulti(ks)) /\ OneBackend

NextBatch ==
  \/ BatchSet
  \/ BatchGet
  \/ BatchSetMulti
  \/ BatchGetMulti
  \/ BatchDeleteMulti
  \/ TickAny

SpecBatch == InitBatch /\ [][NextBatch]_vars

\* ---------------------------------- a key limit under the two policies
\* stores of at most two keys, none of them the empty string, on which four
\* calls are made
PolicyKeys == {"a", "b", "c"}

PolicyConfigs ==
  { [MaxKeys |-> 2, maxSize |-> 0, EvictionPolicy |-> "lru", DefaultTTL |-> 0],
    [MaxKeys |-> 2, maxSize |-> 0, EvictionPolicy |-> "lfu", DefaultTTL |-> 0] }

InitPolicy ==
  /\ \E c \in PolicyConfigs : NewMemoryBackend(c)
  /\ NoGoroutines
  /\ NoSharder
  /\ NoClient

Limited == now <= MaxTime /\ UNCHANGED <<concVars, ringVars, clientVars, stopCleanup>>

PolicySet == Limited /\ \E key \in PolicyKeys, value \in CounterVals : Set(key, value, 0)

PolicyGet == Limited /\ \E key \in PolicyKeys : Get(key)

NextPolicy ==
  \/ PolicySet
  \/ PolicyGet

SpecPolicy == InitPolicy /\ [][NextPolicy]_vars

\* ------------------------------ goroutines in Get, Increment and Set
GetCall ==
  /\ Running
  /\ \E p \in Procs, key \in CounterKeys : GetLookup(p, key)
  /\ UNCHANGED <<ringVars, clientVars>>

GetFinishStep == (\E p \in Procs : GetFinish(p)) /\ UNCHANGED <<ringVars, clientVars>>

\* Set under m.mu.Lock(): the item it stores is a new one
SetReplaces ==
  /\ Running
  /\ CanLock(0)
  /\ \E key \in CounterKeys, value \in CounterVals, ttl \in TTLs :
       /\ Set(key, value, ttl)
       /\ want' = [want EXCEPT ![key] = [has |-> TRUE, n |-> UnmarshalInt(value).n, by |-> {}]]
       /\ loc' = Orphaned({key})
  /\ UNCHANGED <<mu, pc, ringVars, clientVars, stopCleanup>>

NextRace ==
  \/ GetCall
  \/ GetFinishStep
  \/ IncrementCall
  \/ IncrementReadStep
  \/ IncrementWriteStep
  \/ SetReplaces
  \/ TickAny

SpecRace == InitConc /\ [][NextRace]_vars

\* ------------------------------------- the sweep on a store nobody reads
\* Sets, the passing of time, one Close at most, and the ticker of the
\* cleanup goroutine, which fires for as long as stopCleanup is open.  The
\* clock stops at MaxTime but for the sweeps that have an entry to remove.
Due == {k \in DOMAIN data : IsExpired(data[k], now)}

Unread == UNCHANGED <<concVars, ringVars, clientVars>>

SweepSet ==
  /\ Running
  /\ \E key \in CounterKeys, value \in CounterVals, ttl \in TTLs : Set(key, value, ttl)
  /\ UNCHANGED stopCleanup
  /\ Unread

SweepTime == Running /\ Tick /\ UNCHANGED stopCleanup /\ Unread

SweepClose == Running /\ stopCleanup = "open" /\ Close /\ Unread

cleanupTicker ==
  /\ stopCleanup = "open"
  /\ Running \/ Due # {}
  /\ cleanupExpired
  /\ UNCHANGED stopCleanup
  /\ Unread

NextSweep ==
  \/ SweepSet
  \/ SweepTime
  \/ SweepClose
  \/ cleanupTicker

\* the ticker keeps firing and cleanupExpired gets m.mu in the end
SpecSweep == InitConc /\ [][NextSweep]_vars /\ WF_vars(cleanupTicker)

\* ------------------------------------------ a store that is closed in the end
\* the process goes on until a call panics
NoPanic == last.err # ClosePanic

\* the caller of Close and of the calls before and after it
Caller == NoPanic /\ Running /\ UNCHANGED <<concVars, ringVars, clientVars>>

CallSet == Caller /\ UNCHANGED stopCleanup /\ \E key \in Keys, value \in Vals, ttl \in TTLs : Set(key, value, ttl)

CallGet == Caller /\ UNCHANGED stopCleanup /\ \E key \in Keys : Get(key)

CallDelete == Caller /\ UNCHANGED stopCleanup /\ \E key \in Keys : Delete(key)

CallClear == Caller /\ UNCHANGED stopCleanup /\ Clear

CallClose == Caller /\ Close

\* the cleanup goroutine, which ticks while the channel is open
cleanup == Caller /\ stopCleanup = "open" /\ UNCHANGED stopCleanup /\ cleanupExpired

NextClose ==
  \/ CallSet
  \/ CallGet
  \/ CallDelete
  \/ CallClear
  \/ CallClose
  \/ cleanup

SpecClose == InitConc /\ [][NextClose]_vars

TypeOK ==
  /\ cfg \in Configs \cup PolicyConfigs
  /\ DOMAIN data \subseteq Keys \cup PolicyKeys
  /\ now \in 1..(MaxTime + Cardinality(Procs))

\* ------------------------------------------------------------------ claims
\* a call of `op` ran in this step (Tick leaves `last` alone)
Called(op) == last'.at = now /\ last'.call.op = op

LiveKeys == {k \in DOMAIN data : ~IsExpired(data[k], now)}

\* C1: at every observation point the memory usage Stats reports
\* (currentSize) equals the sum of the value sizes of the entries held that
\* are not expired.
C1_MemoryUsageIsLiveSizes == currentSize = SumSizes(data, LiveKeys)

\* C2: Set(k, v, ttl) with ttl > 0 stores v to expire ttl after the call; a
\* Get(k) made right after the Set returns v; a Get(k) made once ttl has
\* elapsed, whether it is the first access since or follows others or a
\* sweep, reports an error and leaves k out of the table.
C2_SetThenGet ==
  [][ /\ (Called("Set") /\ last'.call.ttl > 0) =>
           /\ last'.call.key \in DOMAIN data'
           /\ data'[last'.call.key].value = last'.call.value
           /\ data'[last'.call.key].expireTime = now + last'.call.ttl
      /\ (last.call.op = "Set" /\ last.call.ttl > 0 /\ Called("Get")
            /\ last'.call.key = last.call.key) =>
           /\ (now = last.at + 1 => last'.ok /\ last'.err = "" /\ last'.val = last.call.value)
           /\ (now > last.at + last.call.ttl =>
                 ~last'.ok /\ last'.err # "" /\ last.call.key \notin DOMAIN data')
      /\ (Called("Get") /\ last'.call.key \in DOMAIN data
            /\ data[last'.call.key].expireTime # 0
            /\ now > data[last'.call.key].expireTime) =>
           ~last'.ok /\ last'.err # "" /\ last'.call.key \notin DOMAIN data'
    ]_vars

C2_Witness ==
  /\ last.call.op = "Get"
  /\ last.err = "key expired"
  /\ stats.sets = 1
  /\ stats.hits = 1
  /\ stats.misses = 1

\* C3: with MaxKeys = M > 0, while distinct keys (the empty string among
\* them) are Set and nothing is deleted, the key count never exceeds M.
C3_KeyCountWithinMaxKeys == cfg.MaxKeys > 0 => Cardinality(DOMAIN data) <= cfg.MaxKeys

\* C4: with a maximum memory size, after a Set of a value no larger than the
\* maximum has returned the reported memory usage is at most the maximum.
C4_SetKeepsUsageWithinMax ==
  (cfg.maxSize > 0 /\ last.call.op = "Set" /\ Len(last.call.value) <= cfg.maxSize)
    => currentSize <= cfg.maxSize

\* the Set of this step has to evict: the memory or the key limit is reached
MustEvict ==
  \/ cfg.maxSize > 0 /\ currentSize + Len(last'.call.value) > cfg.maxSize
  \/ cfg.MaxKeys > 0 /\ Cardinality(DOMAIN data) >= cfg.MaxKeys

\* C5: under the LRU policy a Set that must evict removes an entry, and each
\* entry it removes is the one with the oldest last access among the entries
\* stored at that point.
C5_LRUEvictsOldest ==
  [][ (Called("Set") /\ cfg.EvictionPolicy = "lru") =>
        /\ (MustEvict /\ DOMAIN data # {} => last'.evicted # <<>>)
        /\ \A i \in 1..Len(last'.evicted) :
             \A k \in (DOMAIN data) \ {last'.evicted[j] : j \in 1..(i - 1)} :
               data[last'.evicted[i]].accessTime <= data[k].accessTime
    ]_vars

\* the counters a run can reach
CounterRange == (0 - 5 * MaxTime)..(7 + 5 * MaxTime)

\* the delta Increment is run with by the call of this step
DeltaOfCall == IF last'.call.op = "Decrement" THEN 0 - last'.call.delta ELSE last'.call.delta

\* C6: Increment(k, d) on an absent key stores and returns d, on a key that
\* holds the decimal integer n it stores and returns n + d; Decrement(k, d)
\* does what Increment(k, -d) does; Decrement(k, d) right after
\* Increment(k, d) returns the value the counter had before (absent: 0).
C6_IncrementDecrement ==
  [][ (Called("Increment") \/ Called("Decrement")) =>
        LET k == last'.call.key
            d == DeltaOfCall
        IN
        /\ k \notin DOMAIN data =>
             /\ last'.ok /\ last'.err = "" /\ last'.num = d
             /\ k \in DOMAIN data' /\ data'[k].value = FormatInt(d)
             /\ (d = 5 => data'[k].value = <<"5">>)
        /\ \A n \in CounterRange :
             (k \in DOMAIN data /\ data[k].value = FormatInt(n)) =>
               /\ last'.ok /\ last'.err = "" /\ last'.num = n + d
               /\ data'[k].value = FormatInt(n + d)
        /\ (last.call.op = "Increment" /\ last.ok /\ last'.call.op = "Decrement"
              /\ last.call.key = k /\ last.call.delta = last'.call.delta) =>
             /\ last'.ok
             /\ last'.num = last.num - last.call.delta
             /\ (last.num = 5 /\ last.call.delta = 5 => data'[k].value = <<"0">>)
    ]_vars

C6_Witness ==
  /\ last.call.op = "Decrement"
  /\ last.call.delta = 5
  /\ last.ok
  /\ last.num = 0
  /\ last.call.key \in DOMAIN data
  /\ data[last.call.key].value = <<"0">>

\* C7: Increment and Decrement are atomic with respect to each other and to
\* Set, Delete and the sweep: at most one goroutine is between the read and
\* the write of a counter, and every key holds what the completed calls add
\* up to (the value last Set plus every delta applied since, or the deltas
\* alone for a key that was absent), so no update is lost.
C7_NoLostUpdate ==
  /\ Cardinality({p \in Procs : pc[p] # "idle"}) <= 1
  /\ \A k \in CounterKeys :
       /\ want[k].has <=> k \in DOMAIN data
       /\ want[k].has => data[k].value = FormatInt(want[k].n)

C7_Witness ==
  /\ want["a"].by = Procs
  /\ want["a"].n = 17
  /\ data["a"].value = <<"1", "7">>
  /\ last.num = 17

\* a decimal integer: optional sign, then digits, white space around allowed
IsDecimalInteger(v) ==
  LET s == TrimRight(TrimLeft(v))
      body == IF s # <<>> /\ Head(s) \in {"-", "+"} THEN Tail(s) ELSE s
  IN body # <<>> /\ \A i \in 1..Len(body) : IsDigit(body[i])

\* C8: Increment/Decrement on a key whose stored value is not an integer
\* returns the not-a-number error and changes nothing in the store; of Get,
\* Set, Delete, Exists, Increment and Decrement only Increment and Decrement
\* return an error that is not a miss.
C8_NotANumber ==
  [][ /\ ((Called("Increment") \/ Called("Decrement"))
            /\ last'.call.key \in DOMAIN data
            /\ ~IsDecimalInteger(data[last'.call.key].value)) =>
           /\ last'.err = "value is not a number"
           /\ UNCHANGED <<data, currentSize, stats>>
      /\ ((Called("Get") \/ Called("Set") \/ Called("Delete") \/ Called("Exists"))
            /\ last'.err # "") =>
           /\ last'.call.op = "Get"
           /\ last'.err \in {"key not found", "key expired"}
    ]_vars

\* the position a lookup of `key` lands on is past the last one of the ring
PastLast(key) == keys # <<>> /\ hashKey(key) > keys[Len(keys)]

\* C9: with at least one shard, GetShard(k) and GetShardIndex(k) return
\* without a fault, the index they resolve to is one of 0..count-1, GetShard
\* returns the shard at that index, and a key hashed past the last position
\* resolves to the shard of the first position.
C9_LookupResolves ==
  (route.op \in {"GetShard", "GetShardIndex"} /\ Len(shards) >= 1) =>
    /\ ~route.fault
    /\ route.index \in 0..(Len(shards) - 1)
    /\ route.op = "GetShard" => route.shard = shards[route.index + 1]
    /\ (Len(shards) >= 2 /\ PastLast(route.key)) => route.index = RingGet(ring, keys[1])

\* C10: the list of positions is strictly ascending (no position twice) and
\* the ring map holds a shard index for every position of the list.
C10_RingSortedAndMapped ==
  /\ \A i \in 1..(Len(keys) - 1) : keys[i] < keys[i + 1]
  /\ \A i \in 1..Len(keys) : keys[i] \in DOMAIN ring

\* the step is a RemoveShard call that removed a shard
Removed == route'.op = "RemoveShard" /\ route'.err = "" /\ Len(shards') = Len(shards) - 1

\* C11: RemoveShard(i) leaves no position of shard i in the list, gives every
\* remaining position that pointed at j > i the index j - 1 and leaves the
\* others as they were, so every key that resolved to a backend other than
\* the removed one resolves to that same backend after the call.
C11_RemoveShardKeepsOthers ==
  [][ Removed =>
        LET i == route'.index IN
        /\ \A n \in 1..Len(keys') :
             /\ RingGet(ring, keys'[n]) # i
             /\ keys'[n] \in DOMAIN ring'
             /\ ring'[keys'[n]] = IF RingGet(ring, keys'[n]) > i
                                  THEN RingGet(ring, keys'[n]) - 1
                                  ELSE RingGet(ring, keys'[n])
        /\ \A k \in RouteKeys :
             (~GetShardResult(k).fault /\ GetShardResult(k).shard \notin {0, route'.shard}) =>
               /\ ~GetShardResult(k)'.fault
               /\ GetShardResult(k)'.shard = GetShardResult(k).shard
    ]_vars

\* the step removes the shard that the step before added
RemovedLastAdded == route.op = "AddShard" /\ Removed /\ route'.index = route.index

\* C12: AddShard(s) followed by RemoveShard of that same shard restores the
\* routing: for every key GetShard and GetShardIndex return what they
\* returned before the AddShard.
C12_AddThenRemoveRestores ==
  [][ RemovedLastAdded => Routing' = route.was ]_vars

\* the step is a GetShard or GetShardIndex call
LookedUp == route'.op \in {"GetShard", "GetShardIndex"}

\* C13: GetShard and GetShardIndex leave the shards, the ring and the
\* positions as they were; a call repeated for the same key on the unchanged
\* router returns what the call before returned; and for the key looked up
\* GetShard returns the backend stored at the index GetShardIndex returns.
C13_LookupIsPure ==
  [][ LookedUp =>
        /\ UNCHANGED <<shards, replicas, ring, keys>>
        /\ (route.op = route'.op /\ route.key = route'.key) => route' = route
        /\ Len(shards) >= 1 =>
             LET got == GetShardResult(route'.key)
                 at == GetShardIndexResult(route'.key)
             IN /\ got.fault = at.fault
                /\ ~got.fault => /\ at.index \in 0..(Len(shards) - 1)
                                 /\ got.shard = shards[at.index + 1]
    ]_vars

C13_Witness ==
  /\ Len(shards) = 3
  /\ route.op = "GetShard"
  /\ route.key = "user:42"
  /\ ~route.fault
  /\ route.shard = shards[GetShardIndexResult("user:42").index + 1]
  /\ PastLast("user:42")

\* C14: on a router of each algorithm RemoveShard with an index below 0 or
\* at or above the shard count returns an error and leaves the shards, the
\* ring, the positions and the range boundaries as they were; with no shard
\* GetShard returns nil (0) and GetShardIndex returns -1, without a fault.
C14_InvalidIndexAndNoShard ==
  [][ /\ (route'.op = "RemoveShard" /\ (route'.index < 0 \/ route'.index >= Len(shards))) =>
           /\ route'.err # ""
           /\ UNCHANGED <<shards, replicas, ring, keys, ranges>>
      /\ (route'.op = "RemoveShard" /\ route'.err # "") =>
           (route'.index < 0 \/ route'.index >= Len(shards))
      /\ (route'.op = "GetShard" /\ Len(shards) = 0) =>
           route'.shard = 0 /\ ~route'.fault /\ route'.err = ""
      /\ (route'.op = "GetShardIndex" /\ Len(shards) = 0) =>
           route'.index = 0 - 1 /\ ~route'.fault /\ route'.err = ""
    ]_vars

C14_Witness ==
  /\ algorithm = "range"
  /\ Len(shards) = 2
  /\ ranges = <<98, 99>>
  /\ route.op = "RemoveShard"
  /\ route.index = 2
  /\ route.err = "invalid shard index"

\* the backend the Sharder that initSharding built resolves the key to
SharderShard(key) ==
  CASE algorithm = "consistent" -> GetShardResult(key).shard
    [] algorithm = "hash" -> HashGetShardResult(key).shard
    [] algorithm = "range" -> RangeGetShardResult(key).shard

\* C15: in sharded mode Get, Set, Delete, Exists, Increment and Decrement
\* on a key call one backend only, and it is the backend that the Sharder
\* built from the configured algorithm and replicas resolves the key to.
C15_DispatchFollowsSharder ==
  [][ facade'.op \in {"Get", "Set", "Delete", "Exists", "Increment", "Decrement"} =>
        /\ Len(facade'.calls) = 1
        /\ facade'.calls[1].on = SharderShard(facade'.key) ]_vars

C17_SetL1ThenL2 ==
  [][ facade'.op = "Set" =>
        LET k == facade'.key
            c == facade'.calls
        IN /\ c[1].on = "L1" /\ c[1].op = "Set"
           /\ ~c[1].ok => /\ Len(c) = 1
                          /\ facade'.err = "failed to set in L1 cache"
                          /\ UNCHANGED <<l1Cache, l2Cache>>
           /\ c[1].ok => /\ Len(c) = 2 /\ c[2].on = "L2" /\ c[2].op = "Set"
                         /\ k \in DOMAIN l1Cache' /\ l1Cache'[k].value = facade'.val
                         /\ c[2].ok => /\ facade'.err = ""
                                       /\ k \in DOMAIN l2Cache' /\ l2Cache'[k] = l1Cache'[k]
                         /\ ~c[2].ok => /\ facade'.err = "failed to set in L2 cache"
                                        /\ l2Cache' = l2Cache ]_vars

\* a Set has failed on L2 and left in L1 a value that L2 does not hold
C17_Witness ==
  /\ facade.op = "Set" /\ facade.err = "failed to set in L2 cache"
  /\ facade.key \in DOMAIN l1Cache /\ l1Cache[facade.key].value = facade.val
  /\ facade.key \in DOMAIN l2Cache /\ l2Cache[facade.key].value # facade.val

\* C18: a hierarchical Delete calls L1 and then L2 whatever L1 returned,
\* removes the key from each tier that came through, and returns an error
\* when both calls failed and only then.
C18_DeleteBothTiers ==
  [][ facade'.op = "Delete" =>
        LET k == facade'.key
            c == facade'.calls
        IN /\ Len(c) = 2
           /\ c[1].on = "L1" /\ c[1].op = "Delete"
           /\ c[2].on = "L2" /\ c[2].op = "Delete"
           /\ l1Cache' = IF c[1].ok THEN MapDelete(l1Cache, k) ELSE l1Cache
           /\ l2Cache' = IF c[2].ok THEN MapDelete(l2Cache, k) ELSE l2Cache
           /\ (facade'.err # "") = (~c[1].ok /\ ~c[2].ok) ]_vars

\* a Delete has failed on L1, which still holds the key, removed the key
\* from L2 and returned no error
C18_Witness ==
  /\ facade.op = "Delete" /\ facade.err = ""
  /\ ~facade.calls[1].ok /\ facade.calls[2].ok
  /\ facade.key \in DOMAIN l1Cache /\ facade.key \notin DOMAIN l2Cache

\* C19: a hierarchical Exists that returns without error returns true
\* exactly when L1 or L2 holds the key, and no Exists changes what L1 or L2
\* hold.
C19_ExistsEitherTier ==
  [][ facade'.op = "Exists" =>
        /\ UNCHANGED <<l1Cache, l2Cache>>
        /\ facade'.err = "" =>
              (facade'.found = (facade'.key \in DOMAIN l1Cache \/ facade'.key \in DOMAIN l2Cache)) ]_vars

\* C20: hierarchical Health and Close each call L1 and then L2 whatever
\* L1 returned, and return an error exactly when one of the two failed.
C20_HealthCloseBothTiers ==
  [][ facade'.op \in {"Health", "Close"} =>
        LET c == facade'.calls IN
          /\ Len(c) = 2
          /\ c[1].on = "L1" /\ c[1].op = facade'.op
          /\ c[2].on = "L2" /\ c[2].op = facade'.op
          /\ (facade'.err # "") = (~c[1].ok \/ ~c[2].ok) ]_vars

\* C21: in hierarchical mode Increment and Decrement make their one call on
\* L2 and none on L1, and leave what L1 holds as it was.
C21_IncrementOnL2Only ==
  [][ facade'.op \in {"Increment", "Decrement"} =>
        /\ l1Cache' = l1Cache
        /\ Len(facade'.calls) = 1
        /\ facade'.calls[1].on = "L2"
        /\ (facade'.err = "") =>
              /\ facade'.key \in DOMAIN l2Cache'
              /\ l2Cache'[facade'.key].value = facade'.val ]_vars

\* an Increment has raised in L2 the counter of a key of which L1 holds an
\* older value
C21_Witness ==
  /\ facade.op = "Increment" /\ facade.err = ""
  /\ facade.key \in DOMAIN l1Cache /\ facade.key \in DOMAIN l2Cache
  /\ l2Cache[facade.key].value = facade.val
  /\ l1Cache[facade.key].value = facade.val - 1

\* C22: no call aborts the process: Close, also a second Close on the same
\* store, returns, and no lookup on a router faults.
C22_NoUncaughtFault == last.err # ClosePanic /\ ~route.fault

\* goroutine p is past the RUnlock of Get and about to write the accessTime
\* of the item it found, which the table still holds, with no lock held
Touching(p) == pc[p] = "found" /\ ~loc[p].orphan /\ ~IsExpired(loc[p].item, now)

\* goroutine q is inside Increment, under m.mu.Lock(), on the item of key
InPlace(q, key) == pc[q] \in {"locked", "read"} /\ loc[q].key = key /\ key \in DOMAIN data

\* C23: no goroutine is about to write a field of an entry with no lock
\* held and not atomically while another goroutine is about to write the
\* same field of the same entry, be it a Get as well or an Increment that
\* holds the lock.
C23_NoDataRace ==
  \A p, q \in Procs :
    (p # q /\ Touching(p)) => ~Touching(q) /\ ~InPlace(q, loc[p].key)

\* C24: on a store that stays open and whose sweep keeps ticking, an entry
\* past its expiry is removed in the end though nobody reads it, and a sweep
\* leaves every entry that has no expiry or is not yet past it as it is.
C24_SweepRemovesExpired ==
  /\ [][ last'.call.op = "cleanupExpired" =>
          \A k \in DOMAIN data :
            ~IsExpired(data[k], now) => k \in DOMAIN data' /\ data'[k] = data[k] ]_vars
  /\ \A k \in CounterKeys :
       (stopCleanup = "open" /\ k \in Due)
         ~> (stopCleanup = "closed" \/ k \notin Due)

\* a sweep has just emptied a table that nobody read or deleted from
C24_Witness ==
  /\ last.call.op = "cleanupExpired"
  /\ stopCleanup = "open"
  /\ stats.sets > 0
  /\ data = EmptyMap

\* C25: every Get raises exactly one of hits and misses, by one: hits when
\* it returns the value of an entry held and not expired, misses when the
\* key is absent or its entry expired, and then the entry is out of the
\* table; no other call moves either counter, so that their sum is the
\* number of Gets completed.
C25_GetCountsOnce ==
  [][ LET key == last'.call.key
          live == key \in DOMAIN data /\ ~IsExpired(data[key], now)
      IN /\ Called("Get") =>
              /\ last'.ok <=> live
              /\ live => /\ last'.val = data[key].value
                         /\ stats'.hits = stats.hits + 1
                         /\ stats'.misses = stats.misses
              /\ ~live => /\ last'.err # ""
                          /\ stats'.hits = stats.hits
                          /\ stats'.misses = stats.misses + 1
                          /\ key \notin DOMAIN data'
         /\ ~Called("Get") => stats'.hits = stats.hits /\ stats'.misses = stats.misses
    ]_vars

\* the first Get of the store found an entry past its expiry
C25_Witness ==
  /\ last.call.op = "Get"
  /\ last.err = "key expired"
  /\ stats.hits = 0
  /\ stats.misses = 1
  /\ last.call.key \notin DOMAIN data

\* C26: no call other than Clear lowers any of the counters hits, misses,
\* sets, deletes and evictions.
C26_CountersNeverDecrease ==
  [][ ~Called("Clear") =>
        /\ stats'.hits >= stats.hits
        /\ stats'.misses >= stats.misses
        /\ stats'.sets >= stats.sets
        /\ stats'.deletes >= stats.deletes
        /\ stats'.evictions >= stats.evictions ]_vars

\* three calls have raised three counters, the last one a Delete
C26_Witness ==
  /\ last.call.op = "Delete"
  /\ stats.deletes = 1
  /\ stats.sets = 1
  /\ stats.misses = 1

\* C27: a Clear leaves each of the counters hits, misses, sets, deletes and
\* evictions at zero.
C27_ClearResetsCounters ==
  [][ Called("Clear") =>
        stats' = [hits |-> 0, misses |-> 0, sets |-> 0, deletes |-> 0, evictions |-> 0] ]_vars

\* goroutine p has had true from a SetNX on key
CreatedBy(p, key) == loc[p].op = "SetNX" /\ loc[p].key = key /\ loc[p].done /\ loc[p].ret

\* C28: on a store where a key that was set stays, whatever the
\* interleaving of SetNX and Set calls, no two goroutines have had true from
\* a SetNX on the same key, and a SetNX that returns false leaves the table
\* as it was.
C28_SetNXAtomic ==
  /\ [](\A key \in CounterKeys : \A p, q \in Procs : (CreatedBy(p, key) /\ CreatedBy(q, key)) => p = q)
  /\ [][ \A p \in Procs :
           (loc'[p] # loc[p] /\ loc'[p].op = "SetNX" /\ loc'[p].done /\ ~loc'[p].ret)
             => data' = data ]_vars

\* C29: with one caller at a time, a SetNX on a key held and not expired
\* returns false with no error and leaves the entry as it was; a SetNX on
\* any other key goes on to store the value and returns true with no error.
C29_SetNXSequential ==
  [][ \A p \in Procs :
        /\ (pc[p] = "idle" /\ loc'[p] # loc[p] /\ loc'[p].op = "SetNX") =>
             LET key == loc'[p].key IN
               IF key \in DOMAIN data /\ ~IsExpired(data[key], now)
               THEN /\ pc'[p] = "idle"
                    /\ loc'[p].done /\ ~loc'[p].ret
                    /\ facade'.op = "SetNX" /\ ~facade'.found /\ facade'.err = ""
                    /\ data' = data
               ELSE pc'[p] = "absent"
        /\ (pc[p] = "absent" /\ pc'[p] = "idle") =>
             /\ loc'[p].done /\ loc'[p].ret
             /\ facade'.op = "SetNX" /\ facade'.found /\ facade'.err = ""
             /\ loc[p].key \in DOMAIN data'
             /\ Deserialize(data'[loc[p].key].value) = [found |-> TRUE, n |-> loc[p].value] ]_vars

\* a SetNX has returned false on a key that holds another value, and still does
C29_Witness ==
  /\ facade.op = "SetNX"
  /\ ~facade.found
  /\ facade.key \in DOMAIN data
  /\ Deserialize(data[facade.key].value) = [found |-> TRUE, n |-> 3 - facade.val]
  /\ stats.sets = 1

\* C30: whatever the interleaving of GetSet and Set calls, the value a
\* GetSet returns is the value its own write replaces: the one the table
\* holds for the key when the write is made, or none.
C30_GetSetAtomic ==
  [][ \A p \in Procs :
        (pc[p] = "got" /\ pc'[p] = "idle") =>
          LET key == loc[p].key
              replaced == IF key \in DOMAIN data /\ ~IsExpired(data[key], now)
                          THEN Deserialize(data[key].value) ELSE NoValue
          IN /\ facade'.op = "GetSet"
             /\ facade'.found = replaced.found
             /\ facade'.val = replaced.n ]_vars

\* a call of `op` on the CacheClient ran in this step
ClientCalled(op) == facade'.op = op /\ last'.at = now

\* the keys held and not past their expiry
Live == {k \in DOMAIN data : ~IsExpired(data[k], now)}

\* C31: GetMulti(keys) returns with no error a map whose keys are the
\* requested keys that are held and not expired, with, for a key the call
\* before stored, the value it stored; DeleteMulti(keys) removes the listed
\* keys and leaves every other entry as it was.
C31_GetMultiDeleteMulti ==
  [][ /\ ClientCalled("GetMulti") =>
           /\ facade'.err = ""
           /\ DOMAIN facade'.val = Listed(facade'.key) \cap Live
           /\ \A k \in DOMAIN facade'.val :
                /\ (facade.op = "Set" /\ facade.key = k) => facade'.val[k] = facade.val
                /\ (facade.op = "SetMulti" /\ k \in DOMAIN facade.val) => facade'.val[k] = facade.val[k]
      /\ ClientCalled("DeleteMulti") =>
           /\ facade'.err = ""
           /\ DOMAIN data' = (DOMAIN data) \ Listed(facade'.key)
           /\ \A k \in DOMAIN data' : data'[k] = data[k]
    ]_vars

\* C40: with or without compression, a value the call before wrote with
\* SetMulti is what Get and GetMulti return for its key, and a value the
\* call before wrote with Set is what GetMulti returns for its key, as long
\* as the entry is not expired.
C40_BatchAndSingleAgree ==
  [][ /\ (facade.op = "SetMulti" /\ ClientCalled("Get") /\ facade'.key \in DOMAIN facade.val
            /\ facade'.key \in Live) =>
           /\ facade'.err = ""
           /\ facade'.found
           /\ facade'.val = facade.val[facade'.key]
      /\ (facade.op = "SetMulti" /\ ClientCalled("GetMulti")) =>
           \A k \in (DOMAIN facade.val) \cap Listed(facade'.key) \cap Live :
             k \in DOMAIN facade'.val /\ facade'.val[k] = facade.val[k]
      /\ (facade.op = "Set" /\ ClientCalled("GetMulti")
            /\ facade.key \in Listed(facade'.key) \cap Live) =>
           /\ facade.key \in DOMAIN facade'.val
           /\ facade'.val[facade.key] = facade.val
    ]_vars

\* C32: a Clear leaves no key and a memory total of 0; on a store in that
\* state every Get misses and every Exists answers false, and the state
\* lasts until a call that writes (Set, Increment, Decrement).
C32_ClearEmpties ==
  [][ /\ Called("Clear") => data' = EmptyMap /\ currentSize' = 0
      /\ (data = EmptyMap /\ currentSize = 0) =>
           /\ Called("Get") => ~last'.ok /\ last'.err # "" /\ stats'.misses = stats.misses + 1
           /\ Called("Exists") => ~last'.ok
           /\ ~(Called("Set") \/ Called("Increment") \/ Called("Decrement")) =>
                data' = EmptyMap /\ currentSize' = 0
    ]_vars

\* a Get has missed a key on a table that a Clear emptied
C32_Witness ==
  /\ last.call.op = "Get"
  /\ last.err = "key not found"
  /\ stats.sets = 1
  /\ stats.deletes = 0
  /\ stats.evictions = 0
  /\ data = EmptyMap
  /\ currentSize = 0

\* C33: a Set of a new key on a store that holds its maximum of keys evicts
\* one entry, which under LFU has the lowest access counter and under LRU
\* the oldest last access of the entries held.
C33_EvictionFollowsPolicy ==
  [][ (Called("Set") /\ last'.call.key \notin DOMAIN data
         /\ cfg.MaxKeys > 0 /\ Cardinality(DOMAIN data) >= cfg.MaxKeys) =>
        /\ Len(last'.evicted) = 1
        /\ \A k \in DOMAIN data :
             /\ cfg.EvictionPolicy = "lfu" =>
                  data[last'.evicted[1]].accessCount <= data[k].accessCount
             /\ cfg.EvictionPolicy = "lru" =>
                  data[last'.evicted[1]].accessTime <= data[k].accessTime
    ]_vars

\* C34: on a store that holds exactly its maximum of keys, a Set of a key
\* that is held leaves the same keys held and the evictions counter as it
\* was.
C34_OverwriteEvictsNothing ==
  [][ (Called("Set") /\ last'.call.key \in DOMAIN data
         /\ cfg.MaxKeys > 0 /\ Cardinality(DOMAIN data) = cfg.MaxKeys) =>
        /\ DOMAIN data' = DOMAIN data
        /\ stats'.evictions = stats.evictions
        /\ last'.evicted = <<>>
    ]_vars

\* C36: on a store with a maximum of keys that holds no more than that, an
\* Increment or a Decrement, also of a key that is not held, leaves no more
\* keys than the maximum.
C36_IncrementWithinMaxKeys ==
  [][ ((Called("Increment") \/ Called("Decrement"))
         /\ cfg.MaxKeys > 0 /\ Cardinality(DOMAIN data) <= cfg.MaxKeys) =>
        Cardinality(DOMAIN data') <= cfg.MaxKeys
    ]_vars

\* C35: when a Get has read an entry, a Set has since stored a new entry
\* for the key, and that entry is not expired, the key still holds the new
\* entry's value once the Get has returned.
C35_GetKeepsFreshEntry ==
  [][ \A p \in Procs :
        (pc[p] = "found" /\ pc'[p] = "idle" /\ loc[p].orphan
           /\ loc[p].key \in DOMAIN data /\ ~IsExpired(data[loc[p].key], now)) =>
          /\ loc[p].key \in DOMAIN data'
          /\ data'[loc[p].key].value = data[loc[p].key].value
    ]_vars

\* C37: an Increment or a Decrement of a key whose entry is past its expiry
\* and still in the table returns the delta alone, as for an absent key,
\* and leaves an entry that holds it and that a Get made next finds.
C37_IncrementOnExpired ==
  [][ ((Called("Increment") \/ Called("Decrement"))
         /\ last'.call.key \in DOMAIN data /\ IsExpired(data[last'.call.key], now)) =>
        /\ last'.ok
        /\ last'.num = DeltaOfCall
        /\ last'.call.key \in DOMAIN data'
        /\ data'[last'.call.key].value = FormatInt(DeltaOfCall)
        /\ ~IsExpired(data'[last'.call.key], now')
    ]_vars

\* the ring positions that point at shard index i
Owned(i) == {h \in DOMAIN ring : ring[h] = i}

\* C38: on a consistent-hash router every shard of the shard set owns as
\* many ring positions as the router has replicas, and every ring position
\* points at the index of a shard of the set.
C38_EveryShardOwnsReplicas ==
  /\ \A i \in 0..(Len(shards) - 1) : Cardinality(Owned(i)) = replicas
  /\ \A h \in DOMAIN ring : ring[h] \in 0..(Len(shards) - 1)

\* C39: in hierarchical mode a Get of the key that the call before
\* incremented or decremented, when it returns a value, returns the value
\* that call returned.
C39_GetAfterIncrement ==
  [][ (facade.op \in {"Increment", "Decrement"} /\ facade.err = ""
         /\ facade'.op = "Get" /\ facade'.key = facade.key /\ facade'.err = "") =>
        facade'.val = facade.val
    ]_vars

====
